---- MODULE Spec2Model ----
(***************************************************************************)
(* Request pipeline of the nest.js feature demonstrations: middleware,     *)
(* guards, interceptors (before / after), pipes, route handler and         *)
(* exception filter, for a bounded number of calls.                        *)
(*                                                                         *)
(* The classes of the repository (AuthGuard, RolesGuard, the four          *)
(* interceptors, CustomValidationPipe, HttpExceptionFilter,                *)
(* LoggerMiddleware) are translated from their code.  The host framework   *)
(* that calls them is modelled from what the repository's comments say     *)
(* about it; where the comments are silent the definition is marked in     *)
(* MODEL_MAP.json as taken from the specification.                         *)
(***************************************************************************)
EXTENDS Integers, Sequences, FiniteSets, TLC

\* ------------------------------------------------------------------ bounds
MaxGuards == 2        \* longest guard list of a route
MaxIcpts == 2         \* longest interceptor list of a route
NumCalls == 2         \* calls the server can hold at once
MaxStages == 4        \* most guards and interceptors of a route together
MaxMiddleware == 2    \* most middleware stages in one apply()

Calls == 1..NumCalls

\* ------------------------------------------------------------------ values

\* Payloads are paths of property names ending in the leaf value:
\* <<"[]">> is [], <<"data", "[]">> is {data: []}.
Payloads == {<<"hello">>, <<"[]">>}
NoPayload == <<>>

\* An error: its class, whether the class extends HttpException, the status
\* getStatus() gives (0 when it is no HttpException) and its message.
Err(name, http, status, msg) ==
  [name |-> name, http |-> http, status |-> status, msg |-> msg]
NoErr == Err("none", FALSE, 0, "")
ForbiddenException == Err("ForbiddenException", TRUE, 403, "Forbidden resource")
UnauthorizedException == Err("UnauthorizedException", TRUE, 401, "Unauthorized")
BadRequestException == Err("BadRequestException", TRUE, 400, "Validation failed")
RequestTimeoutException ==
  Err("RequestTimeoutException", TRUE, 408, "Request Timeout")
TimeoutError == Err("TimeoutError", FALSE, 0, "Timeout has occurred")
TypeError == Err("TypeError", FALSE, 0, "Cannot read properties of undefined")
PlainError == Err("Error", FALSE, 0, "database unreachable")

\* class CustomForbiddenException extends HttpException: super('Forbidden', 403)
CustomForbiddenException == Err("CustomForbiddenException", TRUE, 403, "Forbidden")

\* What an observable delivers: a value, an error, or nothing yet.
Ok(p) == [kind |-> "ok", val |-> p, err |-> NoErr]
Fail(e) == [kind |-> "err", val |-> NoPayload, err |-> e]
Pending == [kind |-> "none", val |-> NoPayload, err |-> NoErr]

\* ------------------------------------------------------------------ guards

GuardKinds == {"AuthGuard", "RolesGuard", "DenyGuard", "UnauthGuard"}

\* A guard's outcome: it returns true, returns false, or throws err.
Returns(b) == [ret |-> IF b THEN "true" ELSE "false", err |-> NoErr]
Throws(e) == [ret |-> "throw", err |-> e]

\* validateRequest as it would be if it refused every request.
validateRequestRefusing(request) == FALSE

\* AuthGuard.validateRequest: "always true".
validateRequest(request) == TRUE

AuthGuardCanActivate(request) == Returns(validateRequest(request))

\* RolesGuard.matchRoles: returns true whatever the two role lists are.
matchRoles(decoratorRoles, userRoles) == TRUE

\* The lookup as it would be if it went on to the controller when the method
\* declares nothing.
reflectorGetNearest(route) ==
  IF route.roles # "none" THEN route.roles ELSE route.classRoles

\* Reflector.get('roles', context.getHandler()): the metadata set on the
\* route method itself; "none" when the method declares no roles.
reflectorGet(route) == route.roles

\* An outcome of RolesGuard together with what the guard read to reach it:
\* the roles its lookup returned, and whether it read request.user.
Saw(out, roles, user) ==
  [ret |-> out.ret, err |-> out.err, roles |-> roles, user |-> user]

\* canActivate as it would be if it read request.user.roles before it tested
\* the roles of the route.
RolesGuardCanActivateUserFirst(route, request) ==
  LET roles == route.roles IN
  IF request.user = "none" THEN Saw(Throws(TypeError), roles, TRUE)
  ELSE IF roles = "none" THEN Saw(Returns(TRUE), roles, TRUE)
  ELSE Saw(Returns(TRUE), roles, TRUE)

\* canActivate as it would be if it returned false when no user is attached.
RolesGuardCanActivateChecked(route, request) ==
  LET roles == route.roles IN
  IF roles = "none" THEN Saw(Returns(TRUE), roles, FALSE)
  ELSE IF request.user = "none" THEN Saw(Returns(FALSE), roles, TRUE)
  ELSE Saw(Returns(TRUE), roles, TRUE)

\* RolesGuard.canActivate.  request.user is "none" when no user is attached;
\* reading .roles of it then throws a TypeError.
RolesGuardCanActivate(route, request) ==
  LET roles == reflectorGet(route) IN
  IF roles = "none" THEN Saw(Returns(TRUE), roles, FALSE)
  ELSE IF request.user = "none" THEN Saw(Throws(TypeError), roles, TRUE)
  ELSE Saw(Returns(matchRoles(roles, request.user)), roles, TRUE)

\* A guard of the application that returns false, and one that throws its
\* own exception instead (the two cases the RolesGuard comment describes).
DenyGuardCanActivate == Returns(FALSE)
UnauthGuardCanActivate == Throws(UnauthorizedException)

canActivate(g, route, request) ==
  CASE g = "AuthGuard" -> AuthGuardCanActivate(request)
    [] g = "RolesGuard" -> RolesGuardCanActivate(route, request)
    [] g = "DenyGuard" -> DenyGuardCanActivate
    [] g = "UnauthGuard" -> UnauthGuardCanActivate

\* The denial as it would be if a false were answered like a missing login.
GuardDeniedAsUnauthorized == UnauthorizedException

\* "when a guard returns false, the framework throws a ForbiddenException"
GuardDenied == ForbiddenException

\* ------------------------------------------------------------ interceptors

\* The four interceptors of the repository, and one that neither calls
\* next.handle() nor returns a result of its own.
IcptKinds == {"LoggingInterceptor", "TransformInterceptor",
              "TimeoutInterceptor", "CacheInterceptor", "SilentInterceptor"}

\* The interceptors of a list are classes the repository provides.
Provided(icpts) == \A i \in 1..Len(icpts) : icpts[i] # "SilentInterceptor"

\* What intercept() does before it returns its observable: whether it calls
\* next.handle(), what it returns instead when it does not, and whether the
\* observable it returns runs a timer.
Proceeds(timer) == [handle |-> TRUE, subst |-> Pending, timer |-> timer]
ShortCircuits(r) == [handle |-> FALSE, subst |-> r, timer |-> FALSE]
Stalls == [handle |-> FALSE, subst |-> Pending, timer |-> FALSE]

\* isCached as it would be if the cache never held the response.
isCachedNever == FALSE

\* CacheInterceptor: const isCached = true; if (isCached) return of([]);
\* return next.handle();
isCached == TRUE

\* The cached response as it would be if the cache held the wrapped object.
CachedResponseWrapped == <<"data", "[]">>

\* of([])
CachedResponse == <<"[]">>

\* intercept() as it would be if it took the branch after the if.
CacheInterceptorInterceptMissing == Proceeds(FALSE)

CacheInterceptorIntercept ==
  IF isCached THEN ShortCircuits(Ok(CachedResponse)) ELSE Proceeds(FALSE)

\* LoggingInterceptor: console.log('Before...'); next.handle().pipe(tap(..))
LoggingInterceptorIntercept == Proceeds(FALSE)

\* TransformInterceptor: next.handle().pipe(map(..))
TransformInterceptorIntercept == Proceeds(FALSE)

\* TimeoutInterceptor: next.handle().pipe(timeout(5000), catchError(..))
TimeoutInterceptorIntercept == Proceeds(TRUE)

\* The interceptor as it would be if it called next.handle() after all.
SilentInterceptorInterceptCalling == Proceeds(FALSE)

\* An intercept() that does not call handle() and returns an observable
\* that emits nothing.
SilentInterceptorIntercept == Stalls

intercept(k) ==
  CASE k = "LoggingInterceptor" -> LoggingInterceptorIntercept
    [] k = "SilentInterceptor" -> SilentInterceptorIntercept
    [] k = "TransformInterceptor" -> TransformInterceptorIntercept
    [] k = "TimeoutInterceptor" -> TimeoutInterceptorIntercept
    [] k = "CacheInterceptor" -> CacheInterceptorIntercept

\* The tap as it would be if its callback were given as the error callback.
LoggingTapRunsOnError(r) == r.kind = "err"

\* The tap as it would be if it logged on every notification (a finalize).
LoggingTapRunsAlways(r) == TRUE

\* tap(() => console.log(`After...`)): a tap with one callback observes
\* values only, and re-emits whatever it is given.
LoggingTapRuns(r) == r.kind = "ok"
LoggingTap(r) == r

\* The map as it would be if it returned the data as it is, and as it would
\* be if it answered an error with an empty data object.
TransformMapUnwrapped(r) == r
TransformMapCatching(r) ==
  IF r.kind = "ok" THEN Ok(<<"data">> \o r.val) ELSE Ok(<<"data">>)

\* map((data) => ({ data })): values are wrapped, errors pass.
Wrap(p) == <<"data">> \o p
TransformMap(r) == IF r.kind = "ok" THEN Ok(Wrap(r.val)) ELSE r

\* The catchError as it would be without the instanceof branch (the
\* TimeoutError is rethrown), and as it would be with the test dropped (every
\* error becomes a RequestTimeoutException).
TimeoutCatchErrorRethrowing(r) == r
TimeoutCatchErrorAlways(r) ==
  IF r.kind = "err" THEN Fail(RequestTimeoutException) ELSE r

\* catchError((err) => err instanceof TimeoutError
\*   ? throwError(() => new RequestTimeoutException()) : throwError(() => err))
TimeoutCatchError(r) ==
  IF r.kind = "err"
  THEN IF r.err = TimeoutError THEN Fail(RequestTimeoutException) ELSE Fail(r.err)
  ELSE r

\* The result an interceptor's operators hand outward for the result r that
\* reaches them from inside.
after(k, r) ==
  CASE k = "LoggingInterceptor" -> LoggingTap(r)
    [] k = "TransformInterceptor" -> TransformMap(r)
    [] k = "TimeoutInterceptor" -> TimeoutCatchError(r)
    [] k = "CacheInterceptor" -> r
    [] k = "SilentInterceptor" -> r

\* Whether code of interceptor k runs on r: tap's and map's callbacks on a
\* value, timeout/catchError on a value (the timer is cleared) and on an error.
afterRuns(k, r) ==
  CASE k = "LoggingInterceptor" -> LoggingTapRuns(r)
    [] k = "TransformInterceptor" -> r.kind = "ok"
    [] k = "TimeoutInterceptor" -> TRUE
    [] k = "CacheInterceptor" -> FALSE
    [] k = "SilentInterceptor" -> FALSE

Before(i) == [ev |-> "before", at |-> i]
After(i) == [ev |-> "after", at |-> i]
HandlerRan == [ev |-> "handler", at |-> 0]

\* A result emitted inside interceptor i travels outward through the
\* operators of interceptors i, i-1, .., 1 in one synchronous run.
RECURSIVE Unwind(_, _, _)
Unwind(icpts, i, st) ==
  IF i = 0 THEN st
  ELSE Unwind(icpts, i - 1,
         [res |-> after(icpts[i], st.res),
          events |-> IF afterRuns(icpts[i], st.res)
                     THEN Append(st.events, After(i)) ELSE st.events])

\* ------------------------------------------------------------------- pipes

\* A value of the program: a string (its characters), a number (n), a plain
\* object or a class instance (cls, with its age field in n), or undefined.
Value(type, cls, chars, n) == [type |-> type, cls |-> cls, chars |-> chars, n |-> n]
Str(chars) == Value("string", "String", chars, 0)
Num(n) == Value("number", "Number", <<>>, n)
Plain(age) == Value("object", "Object", <<>>, age)
Instance(cls, age) == Value("object", cls, <<>>, age)
Undefined == Value("undefined", "undefined", <<>>, 0)

Passes(v) == [ok |-> TRUE, val |-> v, err |-> NoErr]
Rejects(e) == [ok |-> FALSE, val |-> Undefined, err |-> e]

DigitValue == [d \in {"0", "1", "2"} |-> CASE d = "0" -> 0 [] d = "1" -> 1 [] d = "2" -> 2]
Digits == DOMAIN DigitValue

\* ParseIntPipe accepts an optional minus sign followed by digits only.
isNumeric(chars) ==
  LET body == IF chars # <<>> /\ Head(chars) = "-" THEN Tail(chars) ELSE chars
  IN  body # <<>> /\ \A i \in 1..Len(body) : body[i] \in Digits

RECURSIVE DecimalValue(_)
DecimalValue(ds) ==
  IF ds = <<>> THEN 0
  ELSE 10 * DecimalValue(SubSeq(ds, 1, Len(ds) - 1)) + DigitValue[ds[Len(ds)]]

parseInt(chars) ==
  IF Head(chars) = "-" THEN 0 - DecimalValue(Tail(chars)) ELSE DecimalValue(chars)

\* The pipe as it would be if it handed on what it cannot parse.
ParseIntPipeTransformLenient(value) ==
  IF value.type = "string" /\ isNumeric(value.chars)
  THEN Passes(Num(parseInt(value.chars)))
  ELSE Passes(value)

\* "either the parameter we receive is a number or an exception is thrown
\* before the route handler is called"
ParseIntPipeTransform(value) ==
  IF value.type = "string" /\ isNumeric(value.chars)
  THEN Passes(Num(parseInt(value.chars)))
  ELSE Rejects(BadRequestException)

\* CustomValidationPipe.toValidate
NativeTypes == {"String", "Boolean", "Number", "Array", "Object"}
\* toValidate as it would be with the negation dropped.
toValidateNegationDropped(metatype) == metatype \in NativeTypes

toValidate(metatype) == metatype \notin NativeTypes

\* plainToInstance(metatype, value): an object becomes an instance of the
\* class with the same fields; anything else is returned as it is.
plainToInstance(metatype, value) ==
  IF value.type = "object" THEN Instance(metatype, value.n) ELSE value

\* validate(object): the violations of the rules declared on the object's
\* class.  CreateCatDto requires age >= 0; a value that is no instance of a
\* decorated class has no rule to violate.
validate(object) ==
  IF object.cls = "CreateCatDto" /\ object.n < 0 THEN <<"age must not be negative">>
  ELSE <<>>

\* CustomValidationPipe.transform; metatype "undefined" is a missing metatype.
Bypasses(metatype) == metatype = "undefined" \/ ~toValidate(metatype)
\* The pipe as it would be if it returned the converted object.
CustomValidationPipeTransformConverting(value, metatype) ==
  IF Bypasses(metatype) THEN Passes(value)
  ELSE LET object == plainToInstance(metatype, value)
           errors == validate(object)
       IN  IF Len(errors) > 0 THEN Rejects(BadRequestException) ELSE Passes(object)

CustomValidationPipeTransform(value, metatype) ==
  IF Bypasses(metatype) THEN Passes(value)
  ELSE LET object == plainToInstance(metatype, value)
           errors == validate(object)
       IN  IF Len(errors) > 0 THEN Rejects(BadRequestException) ELSE Passes(value)

PipeKinds == {"none", "ParseIntPipe", "CustomValidationPipe"}

transform(pipe, value, metatype) ==
  CASE pipe = "none" -> Passes(value)
    [] pipe = "ParseIntPipe" -> ParseIntPipeTransform(value)
    [] pipe = "CustomValidationPipe" -> CustomValidationPipeTransform(value, metatype)

\* Whether the pipe hands the value to validate().
validates(pipe, metatype) == pipe = "CustomValidationPipe" /\ ~Bypasses(metatype)

\* What a pipe was called with, and whether it ran the validation.
Param(value, metatype, validated) ==
  [value |-> value, metatype |-> metatype, validated |-> validated]
NoParam == Param(Undefined, "undefined", FALSE)

\* ------------------------------------------------------- exception filters

Body(kind, payload, statusCode, timestamp, path, message, error) ==
  [kind |-> kind, payload |-> payload, statusCode |-> statusCode,
   timestamp |-> timestamp, path |-> path, message |-> message, error |-> error]
Response(status, body) == [status |-> status, body |-> body]

\* A value the handler chain produced is sent as it is, with status 200.
SendResult(p) == Response(200, Body("payload", p, 0, "", "", "", ""))

\* The filter as it would be if it copied the exception's message into the
\* body, as the built-in filter does.
HttpExceptionFilterCatchWithMessage(exception, request) ==
  LET status == exception.status
  IN  Response(status,
        Body("error", NoPayload, status, "now", request.url, exception.msg, ""))

\* The filter as it would be without the call of response.status(): the
\* body is sent with the status the response has by default.
HttpExceptionFilterCatchStatusUnset(exception, request) ==
  LET status == exception.status
  IN  Response(200, Body("error", NoPayload, status, "now", request.url, "", ""))

\* HttpExceptionFilter.catch: response.status(status).json({statusCode: status,
\* timestamp: new Date().toISOString(), path: request.url})
HttpExceptionFilterCatch(exception, request) ==
  LET status == exception.status
  IN  Response(status, Body("error", NoPayload, status, "now", request.url, "", ""))

\* The framework's built-in filter: an HttpException is answered with its
\* status and message, anything else with a generic 500.
ErrorName(exception) ==
  CASE exception.status = 400 -> "Bad Request"
    [] exception.status = 401 -> "Unauthorized"
    [] exception.status = 403 -> "Forbidden"
    [] exception.status = 408 -> "Request Timeout"
    [] OTHER -> "Internal Server Error"

\* The built-in filter as it would be if it answered an unrecognized
\* exception with the exception's own message.
BuiltInFilterCatchLeaking(exception) ==
  IF exception.http
  THEN Response(exception.status,
         Body("error", NoPayload, exception.status, "", "", exception.msg,
              ErrorName(exception)))
  ELSE Response(500, Body("error", NoPayload, 500, "", "", exception.msg, ""))

BuiltInFilterCatch(exception) ==
  IF exception.http
  THEN Response(exception.status,
         Body("error", NoPayload, exception.status, "", "", exception.msg,
              ErrorName(exception)))
  ELSE Response(500, Body("error", NoPayload, 500, "", "", "Internal server error", ""))

\* The scopes a filter can be bound at, the most specific first, and the
\* scope of the framework's own filter.
FilterScopes == <<"method", "controller", "global">>
BuiltIn == "built-in"

\* The scopes at which HttpExceptionFilter is bound for a route:
\* @UseFilters on the method, @UseFilters on the controller, useGlobalFilters.
BoundAt(rt, above) == (IF rt.filter THEN {"method"} ELSE {}) \cup above

\* HttpExceptionFilter's @Catch as it would be with no argument: it takes
\* every exception.
HttpExceptionFilterCatchesAll(exception) == TRUE

\* @Catch(HttpException): the filter takes HttpException and its subclasses.
HttpExceptionFilterCatches(exception) == exception.http

\* The scope whose filter handles an exception: the most specific scope that
\* binds a filter catching the exception's class, the built-in one otherwise.
SelectScope(bound, exception) ==
  LET matching == {i \in 1..Len(FilterScopes) :
                     FilterScopes[i] \in bound /\ HttpExceptionFilterCatches(exception)}
  IN  IF matching = {} THEN BuiltIn
      ELSE FilterScopes[CHOOSE i \in matching : \A j \in matching : i <= j]

\* The filter that handles an exception thrown on a route: the one bound
\* with @UseFilters (or useGlobalFilters) when it catches the exception's
\* class, the built-in one otherwise.
SelectFilter(bound, exception) ==
  IF SelectScope(bound, exception) = BuiltIn
  THEN "BuiltInFilter" ELSE "HttpExceptionFilter"

\* ------------------------------------------------------------------- state

VARIABLES
  route,         \* per call: what is bound to the route it is for
  request,       \* per call: the request (the attached user, the url)
  outer,         \* per call: the scopes above the method that bind the filter
  pc,            \* per call: where the response path of the call stands
  mwi,           \* per call: middleware stages that have called next()
  mwLog,         \* per call: the middleware stages run so far, with what each did
  guardLog,      \* per call: the guards evaluated so far, with their outcome
  lookup,        \* per call: what RolesGuard read when it was last evaluated
  depth,         \* per call: interceptors whose intercept() called next.handle()
  armed,         \* per call: positions of the interceptors whose timer runs
  inner,         \* per call: where the pipes-and-handler invocation stands
  param,         \* per call: the raw value and metatype the pipe was given
  arg,           \* per call: the parameter the pipes handed to the handler
  handlerCalls,  \* per call: executions of the route handler
  hres,          \* per call: what the handler itself returned or threw
  res,           \* per call: what reached the response stage
  timedOut,      \* per call: a deadline expired
  events,        \* per call: before / handler / after, in the order observed
  caughtBy,      \* per call: the exception filter that took the error
  caughtAt,      \* per call: the scope at which that filter is bound
  responses      \* per call: what was written to the response, in order

vars == <<route, request, outer, pc, mwi, mwLog, guardLog, lookup, depth, armed, inner, param, arg,
          handlerCalls, hres, res, timedOut, events, caughtBy, caughtAt, responses>>

SeqsUpTo(S, n) == UNION {[1..k -> S] : k \in 0..n}
InSeq(x, seq) == \E i \in 1..Len(seq) : seq[i] = x

\* LoggerMiddleware, and the two other stages a middleware can be: one that
\* ends the request-response cycle and one that neither ends it nor calls
\* next().
MiddlewareKinds == {"LoggerMiddleware", "EndingMiddleware", "SilentMiddleware"}

\* consumer.apply(LoggerMiddleware).forRoutes(GET cats): what the module
\* applies to a route is LoggerMiddleware or nothing.
Applied == {<<>>, <<"LoggerMiddleware">>}

\* The routes whose middleware is one of mws, whose guards are one of the
\* lists guardss, whose controller declares one of classes as its roles and
\* whose interceptors are one of the lists icptss.
RoutesOf(mws, guardss, classes, icptss) ==
  [mw : mws,
   guards : guardss,
   roles : {"none", "admin"},
   classRoles : classes,
   icpts : icptss,
   pipe : PipeKinds,
   filter : BOOLEAN]

Routes ==
  RoutesOf(SeqsUpTo(MiddlewareKinds, MaxMiddleware), SeqsUpTo(GuardKinds, MaxGuards),
           {"none", "staff"}, SeqsUpTo(IcptKinds, MaxIcpts))

\* The routes of the application as the repository declares them: what the
\* module applies, the interceptor classes provided, no roles on a controller.
ProvidedKinds == IcptKinds \ {"SilentInterceptor"}
Configured ==
  RoutesOf(Applied, SeqsUpTo(GuardKinds, MaxGuards), {"none"},
           SeqsUpTo(ProvidedKinds, MaxIcpts))

\* The urls of the requests: /cats, and /:id with the ids 12, -2 and 1a.
IdUrls == {"/12", "/-2", "/1a"}
Requests == [user : {"none", "guest", "admin"}, url : {"/cats"} \cup IdUrls]

\* @Param('id'): the characters of the url after the slash.
ParamId(url) ==
  CASE url = "/12" -> <<"1", "2">>
    [] url = "/-2" -> <<"-", "2">>
    [] url = "/1a" -> <<"1", "a">>
    [] OTHER -> <<>>

\* What the handler of a route can return or throw.
HandlerOutcomes ==
  {Ok(p) : p \in Payloads} \cup {Fail(CustomForbiddenException), Fail(PlainError)}

\* Only RolesGuard reads the roles metadata and the user; a route without it
\* is taken with one value of each.  A route whose parameter is @Param('id')
\* with ParseIntPipe is requested with an id in the url, the others as /cats.
\* LoggerMiddleware is bound to GET /cats, which has no filter of its own.
\* A route has at most MaxStages guards and interceptors together.
Requested(rt, rq) ==
  /\ \/ InSeq("RolesGuard", rt.guards)
     \/ (rt.roles = "none" /\ rt.classRoles = "none" /\ rq.user = "none")
  /\ (rt.pipe = "ParseIntPipe") = (rq.url \in IdUrls)
  /\ rt.mw = <<>> \/ ~rt.filter
  /\ Len(rt.guards) + Len(rt.icpts) <= MaxStages

\* A request for a route of the application as the module configures it.
Arrives(rt, rq) ==
  /\ Requested(rt, rq)
  /\ rt.mw \in Applied
  /\ rt.classRoles = "none"
  /\ Provided(rt.icpts)

NoLookup == [roles |-> "none", user |-> FALSE, ran |-> FALSE]
Lookup(out) == [roles |-> out.roles, user |-> out.user, ran |-> TRUE]

NoRoute ==
  [mw |-> <<>>, guards |-> <<>>, roles |-> "none", classRoles |-> "none",
   icpts |-> <<>>,
   pipe |-> "none", filter |-> FALSE]
NoRequest == [user |-> "none", url |-> "/cats"]

\* The calls of `active` have arrived, call c for route rts[c] with request
\* rqs[c], the filter being bound at the scopes[c] above the method as well;
\* the others never do.
Start(active, rts, rqs, scopes) ==
  /\ route = rts
  /\ request = rqs
  /\ outer = scopes
  /\ pc = [c \in Calls |-> IF c \in active THEN "mw" ELSE "off"]
  /\ mwi = [c \in Calls |-> 0]
  /\ mwLog = [c \in Calls |-> <<>>]
  /\ guardLog = [c \in Calls |-> <<>>]
  /\ lookup = [c \in Calls |-> NoLookup]
  /\ depth = [c \in Calls |-> 0]
  /\ armed = [c \in Calls |-> {}]
  /\ inner = [c \in Calls |-> "idle"]
  /\ param = [c \in Calls |-> NoParam]
  /\ arg = [c \in Calls |-> Undefined]
  /\ handlerCalls = [c \in Calls |-> 0]
  /\ hres = [c \in Calls |-> Pending]
  /\ res = [c \in Calls |-> Pending]
  /\ timedOut = [c \in Calls |-> FALSE]
  /\ events = [c \in Calls |-> <<>>]
  /\ caughtBy = [c \in Calls |-> "none"]
  /\ caughtAt = [c \in Calls |-> "none"]
  /\ responses = [c \in Calls |-> <<>>]

\* One call arrives, for any route and with any request.
Init ==
  \E rt \in Configured, rq \in Requests :
    /\ Arrives(rt, rq)
    /\ Start({1}, [c \in Calls |-> IF c = 1 THEN rt ELSE NoRoute],
                  [c \in Calls |-> IF c = 1 THEN rq ELSE NoRequest],
                  [c \in Calls |-> {}])

\* ----------------------------------------------------------------- actions

Min(S) == CHOOSE x \in S : \A y \in S : x <= y

\* LoggerMiddleware as it would be if it ended the response instead of
\* calling next().
LoggerMiddlewareUseEnding == "end"

\* LoggerMiddleware.use: console.log('Request...'); next();
LoggerMiddlewareUse == "next"

\* What a stage does with the request: it calls next() once, it ends the
\* request-response cycle, or it does neither.
use(m) ==
  CASE m = "LoggerMiddleware" -> LoggerMiddlewareUse
    [] m = "EndingMiddleware" -> "end"
    [] m = "SilentMiddleware" -> "neither"

\* What a stage that ends the cycle writes: res.end(), an empty 200.
MiddlewareEnd == Response(200, Body("ended", NoPayload, 0, "", "", "", ""))

\* The stage after the ones that called next() runs.  When it calls next()
\* the following stage is due; when it ends the cycle the response is
\* written and nothing else runs; when it does neither the request is left
\* hanging.
Middleware(c) ==
  /\ pc[c] = "mw"
  /\ mwi[c] < Len(route[c].mw)
  /\ LET m == route[c].mw[mwi[c] + 1]
         does == use(m)
     IN  /\ mwLog' = [mwLog EXCEPT ![c] = Append(@, <<m, does>>)]
         /\ mwi' = [mwi EXCEPT ![c] = IF does = "next" THEN @ + 1 ELSE @]
         /\ pc' = [pc EXCEPT ![c] =
                     CASE does = "next" -> "mw"
                       [] does = "end" -> "done"
                       [] does = "neither" -> "hanging"]
         /\ responses' = [responses EXCEPT ![c] =
                            IF does = "end" THEN Append(@, MiddlewareEnd) ELSE @]
  /\ UNCHANGED <<route, request, outer, guardLog, lookup, depth, armed, inner, param, arg,
                 handlerCalls, hres, res, timedOut, events, caughtBy, caughtAt>>

\* The routing as it would be if the route did not wait for the middleware.
RoutedAtOnce(c) ==
  /\ pc[c] = "mw"
  /\ pc' = [pc EXCEPT ![c] = "guards"]
  /\ UNCHANGED <<route, request, outer, mwi, mwLog, guardLog, lookup, depth, armed, inner,
                 param, arg, handlerCalls, hres, res, timedOut, events,
                 caughtBy, caughtAt, responses>>

\* The last stage called next(): the request reaches the route.
Routed(c) ==
  /\ pc[c] = "mw"
  /\ mwi[c] = Len(route[c].mw)
  /\ pc' = [pc EXCEPT ![c] = "guards"]
  /\ UNCHANGED <<route, request, outer, mwi, mwLog, guardLog, lookup, depth, armed, inner, param, arg,
                 handlerCalls, hres, res, timedOut, events, caughtBy, caughtAt, responses>>

\* The verdict as it would be if a false did not stop the chain, and as it
\* would be if a throwing guard were taken for one that returned false.
GuardVerdictGoingOn(out) ==
  CASE out.ret = "true" -> [go |-> TRUE, res |-> Pending]
    [] out.ret = "false" -> [go |-> TRUE, res |-> Fail(ForbiddenException)]
    [] out.ret = "throw" -> [go |-> FALSE, res |-> Fail(out.err)]
GuardVerdictThrowAsFalse(out) ==
  CASE out.ret = "true" -> [go |-> TRUE, res |-> Pending]
    [] OTHER -> [go |-> FALSE, res |-> Fail(ForbiddenException)]

\* What the guard chain does with the outcome of one guard: go on to the
\* next guard, or stop with an error for the exception filters.
GuardVerdict(out) ==
  CASE out.ret = "true" -> [go |-> TRUE, res |-> Pending]
    [] out.ret = "false" -> [go |-> FALSE, res |-> Fail(GuardDenied)]
    [] out.ret = "throw" -> [go |-> FALSE, res |-> Fail(out.err)]

\* The first guard not yet evaluated is evaluated.
Guard(c) ==
  /\ pc[c] = "guards"
  /\ Len(guardLog[c]) < Len(route[c].guards)
  /\ LET g == route[c].guards[Len(guardLog[c]) + 1]
         out == canActivate(g, route[c], request[c])
         v == GuardVerdict(out)
     IN  /\ guardLog' = [guardLog EXCEPT ![c] = Append(@, <<g, out.ret>>)]
         /\ lookup' = [lookup EXCEPT ![c] =
                         IF g = "RolesGuard" THEN Lookup(out) ELSE @]
         /\ res' = [res EXCEPT ![c] = v.res]
         /\ pc' = [pc EXCEPT ![c] = IF v.go THEN "guards" ELSE "respond"]
  /\ UNCHANGED <<route, request, outer, mwi, mwLog, depth, armed, inner, param, arg,
                 handlerCalls, hres, timedOut, events, caughtBy, caughtAt, responses>>

\* Every guard returned true: the interceptors are entered.
GuardsPassed(c) ==
  /\ pc[c] = "guards"
  /\ Len(guardLog[c]) = Len(route[c].guards)
  /\ pc' = [pc EXCEPT ![c] = "icpt"]
  /\ UNCHANGED <<route, request, outer, mwi, mwLog, guardLog, lookup, depth, armed, inner, param, arg,
                 handlerCalls, hres, res, timedOut, events, caughtBy, caughtAt, responses>>

\* intercept() of the next interceptor runs.  When it calls next.handle() the
\* chain goes one interceptor further in; when it returns an observable of
\* its own, that observable's value travels out through the interceptors
\* around it; when that observable emits nothing, the response path waits,
\* with the timers of the interceptors around it running.
Intercept(c) ==
  /\ pc[c] = "icpt"
  /\ depth[c] < Len(route[c].icpts)
  /\ LET i == depth[c] + 1
         b == intercept(route[c].icpts[i])
         seen == Append(events[c], Before(i))
         out == Unwind(route[c].icpts, i - 1, [res |-> b.subst, events |-> seen])
     IN  IF b.handle
         THEN /\ depth' = [depth EXCEPT ![c] = i]
              /\ armed' = [armed EXCEPT ![c] = IF b.timer THEN @ \cup {i} ELSE @]
              /\ events' = [events EXCEPT ![c] = seen]
              /\ UNCHANGED <<pc, res>>
         ELSE IF b.subst = Pending
         THEN /\ events' = [events EXCEPT ![c] = seen]
              /\ pc' = [pc EXCEPT ![c] = "waiting"]
              /\ UNCHANGED <<depth, armed, res>>
         ELSE /\ res' = [res EXCEPT ![c] = out.res]
              /\ events' = [events EXCEPT ![c] = out.events]
              /\ armed' = [armed EXCEPT ![c] = {}]
              /\ pc' = [pc EXCEPT ![c] = "respond"]
              /\ UNCHANGED depth
  /\ UNCHANGED <<route, request, outer, mwi, mwLog, guardLog, lookup, inner, param, arg,
                 handlerCalls, hres, timedOut, caughtBy, caughtAt, responses>>

\* The invocation as it would be if it did not wait for the interceptors:
\* the pipes start as soon as the guards have passed.
SubscribeAtOnce(c) ==
  /\ pc[c] = "icpt"
  /\ pc' = [pc EXCEPT ![c] = "inner"]
  /\ inner' = [inner EXCEPT ![c] = "pipes"]
  /\ UNCHANGED <<route, request, outer, mwi, mwLog, guardLog, lookup, depth, armed, param,
                 arg, handlerCalls, hres, res, timedOut, events, caughtBy,
                 caughtAt, responses>>

\* The innermost next.handle() is subscribed: pipes, then the handler.
Subscribe(c) ==
  /\ pc[c] = "icpt"
  /\ depth[c] = Len(route[c].icpts)
  /\ pc' = [pc EXCEPT ![c] = "inner"]
  /\ inner' = [inner EXCEPT ![c] = "pipes"]
  /\ UNCHANGED <<route, request, outer, mwi, mwLog, guardLog, lookup, depth, armed, param, arg,
                 handlerCalls, hres, res, timedOut, events, caughtBy, caughtAt, responses>>

\* The emission as it would be if the timeout operator did not unsubscribe:
\* a result that arrives after the deadline is delivered as well.
EmittedAlsoLate(c, r, seen) ==
  LET out == Unwind(route[c].icpts, Len(route[c].icpts),
                    [res |-> r, events |-> seen])
  IN  /\ res' = [res EXCEPT ![c] = out.res]
      /\ events' = [events EXCEPT ![c] = out.events]
      /\ armed' = [armed EXCEPT ![c] = {}]
      /\ pc' = [pc EXCEPT ![c] = "respond"]

\* The invocation emits r.  While the response path still waits for it, r
\* travels out through every interceptor; after a deadline took the response
\* path away nobody is subscribed and r is dropped.
Emitted(c, r, seen) ==
  IF pc[c] = "inner"
  THEN LET out == Unwind(route[c].icpts, Len(route[c].icpts),
                         [res |-> r, events |-> seen])
       IN  /\ res' = [res EXCEPT ![c] = out.res]
           /\ events' = [events EXCEPT ![c] = out.events]
           /\ armed' = [armed EXCEPT ![c] = {}]
           /\ pc' = [pc EXCEPT ![c] = "respond"]
  ELSE /\ events' = [events EXCEPT ![c] = seen]
       /\ UNCHANGED <<res, armed, pc>>

\* What a parameter with this pipe is given: a route parameter (ParseIntPipe
\* on @Param) is the id of the url; a body (CustomValidationPipe on @Body)
\* is an object, declared as Object, as a dto class or not at all, or a
\* string, declared as String or not at all.  Only CustomValidationPipe reads
\* the metatype.
PipeInput(value, metatype) == [value |-> value, metatype |-> metatype]
PipeInputs(pipe, rq) ==
  CASE pipe = "ParseIntPipe" -> {PipeInput(Str(ParamId(rq.url)), "Number")}
    [] pipe = "CustomValidationPipe" ->
         {PipeInput(v, m) : v \in {Plain(1), Plain(0 - 1)},
                            m \in {"Object", "CreateCatDto"}}
         \cup {PipeInput(Plain(0 - 1), "undefined")}
         \cup {PipeInput(Str(<<"1", "2">>), m) : m \in {"String", "undefined"}}
    [] pipe = "none" -> {PipeInput(Plain(1), "Object")}

\* The pipe bound to the handler's parameter transforms the raw value.
Pipe(c) ==
  /\ inner[c] = "pipes"
  /\ \E given \in PipeInputs(route[c].pipe, request[c]) :
       LET t == transform(route[c].pipe, given.value, given.metatype)
       IN  /\ param' = [param EXCEPT ![c] =
                 Param(given.value, given.metatype,
                       validates(route[c].pipe, given.metatype))]
           /\ IF t.ok
              THEN /\ arg' = [arg EXCEPT ![c] = t.val]
                   /\ inner' = [inner EXCEPT ![c] = "ready"]
                   /\ UNCHANGED <<res, events, armed, pc>>
              ELSE /\ inner' = [inner EXCEPT ![c] = "finished"]
                   /\ Emitted(c, Fail(t.err), events[c])
                   /\ UNCHANGED arg
  /\ UNCHANGED <<route, request, outer, mwi, mwLog, guardLog, lookup, depth,
                 handlerCalls, hres, timedOut, caughtBy, caughtAt, responses>>

\* The invocation as it would be if an interceptor subscribed to
\* next.handle() twice: the handler is called once for each.
InvokeTwice(c) ==
  /\ inner[c] = "ready"
  /\ inner' = [inner EXCEPT ![c] = "running"]
  /\ handlerCalls' = [handlerCalls EXCEPT ![c] = @ + 2]
  /\ events' = [events EXCEPT ![c] = Append(Append(@, HandlerRan), HandlerRan)]
  /\ UNCHANGED <<route, request, outer, pc, mwi, mwLog, guardLog, lookup, depth,
                 armed, param, arg, hres, res, timedOut, caughtBy, caughtAt,
                 responses>>

\* The route handler is called with the transformed parameter.
Invoke(c) ==
  /\ inner[c] = "ready"
  /\ inner' = [inner EXCEPT ![c] = "running"]
  /\ handlerCalls' = [handlerCalls EXCEPT ![c] = @ + 1]
  /\ events' = [events EXCEPT ![c] = Append(@, HandlerRan)]
  /\ UNCHANGED <<route, request, outer, pc, mwi, mwLog, guardLog, lookup, depth, armed, param, arg,
                 hres, res, timedOut, caughtBy, caughtAt, responses>>

\* The handler returns or throws.
Complete(c) ==
  /\ inner[c] = "running"
  /\ \E r \in HandlerOutcomes :
       /\ hres' = [hres EXCEPT ![c] = r]
       /\ Emitted(c, r, events[c])
  /\ inner' = [inner EXCEPT ![c] = "finished"]
  /\ UNCHANGED <<route, request, outer, mwi, mwLog, guardLog, lookup, depth, param, arg,
                 handlerCalls, timedOut, caughtBy, caughtAt, responses>>

\* The expiry as it would be if the interceptor kept one timer for all the
\* calls it intercepts: every call is marked as timed out with it.
DeadlineOfAll(c) ==
  /\ \/ pc[c] = "inner" /\ inner[c] = "running"
     \/ pc[c] = "waiting"
  /\ armed[c] # {}
  /\ LET out == Unwind(route[c].icpts, Min(armed[c]),
                       [res |-> Fail(TimeoutError), events |-> events[c]])
     IN  /\ res' = [res EXCEPT ![c] = out.res]
         /\ events' = [events EXCEPT ![c] = out.events]
  /\ armed' = [armed EXCEPT ![c] = {}]
  /\ timedOut' = [d \in Calls |-> TRUE]
  /\ pc' = [pc EXCEPT ![c] = "respond"]
  /\ UNCHANGED <<route, request, outer, mwi, mwLog, guardLog, lookup, depth, inner,
                 param, arg, handlerCalls, hres, caughtBy, caughtAt, responses>>

\* timeout(5000): the timer of the outermost waiting TimeoutInterceptor
\* expires while the handler is running, or while an interceptor further in
\* emits nothing.  The operator unsubscribes from what is inside it and emits
\* a TimeoutError, which travels out from there.  The handler is not
\* stopped.  (Timers of equal delay expire in the order they were started,
\* and an expiry unsubscribes the timers inside.)
Deadline(c) ==
  /\ \/ pc[c] = "inner" /\ inner[c] = "running"
     \/ pc[c] = "waiting"
  /\ armed[c] # {}
  /\ LET out == Unwind(route[c].icpts, Min(armed[c]),
                       [res |-> Fail(TimeoutError), events |-> events[c]])
     IN  /\ res' = [res EXCEPT ![c] = out.res]
         /\ events' = [events EXCEPT ![c] = out.events]
  /\ armed' = [armed EXCEPT ![c] = {}]
  /\ timedOut' = [timedOut EXCEPT ![c] = TRUE]
  /\ pc' = [pc EXCEPT ![c] = "respond"]
  /\ UNCHANGED <<route, request, outer, mwi, mwLog, guardLog, lookup, depth, inner, param, arg,
                 handlerCalls, hres, caughtBy, caughtAt, responses>>

\* A value reached the response stage: it is sent.
Reply(c) ==
  /\ pc[c] = "respond"
  /\ res[c].kind = "ok"
  /\ responses' = [responses EXCEPT ![c] = Append(@, SendResult(res[c].val))]
  /\ pc' = [pc EXCEPT ![c] = "done"]
  /\ UNCHANGED <<route, request, outer, mwi, mwLog, guardLog, lookup, depth, armed, inner, param, arg,
                 handlerCalls, hres, res, timedOut, events, caughtBy, caughtAt>>

\* An error reached the response stage: one exception filter takes it.
Catch(c) ==
  /\ pc[c] = "respond"
  /\ res[c].kind = "err"
  /\ LET bound == BoundAt(route[c], outer[c])
     IN  /\ caughtBy' = [caughtBy EXCEPT ![c] = SelectFilter(bound, res[c].err)]
         /\ caughtAt' = [caughtAt EXCEPT ![c] = SelectScope(bound, res[c].err)]
  /\ pc' = [pc EXCEPT ![c] = "caught"]
  /\ UNCHANGED <<route, request, outer, mwi, mwLog, guardLog, lookup, depth, armed, inner, param, arg,
                 handlerCalls, hres, res, timedOut, events, responses>>

\* The filter as it would be if it threw the error again after writing.
EmitRethrowing(c) ==
  /\ pc[c] = "caught"
  /\ responses' = [responses EXCEPT ![c] =
       Append(@, IF caughtBy[c] = "HttpExceptionFilter"
                 THEN HttpExceptionFilterCatch(res[c].err, request[c])
                 ELSE BuiltInFilterCatch(res[c].err))]
  /\ pc' = [pc EXCEPT ![c] = "respond"]
  /\ UNCHANGED <<route, request, outer, mwi, mwLog, guardLog, lookup, depth, armed, inner,
                 param, arg, handlerCalls, hres, res, timedOut, events,
                 caughtBy, caughtAt>>

\* The filter that took the error writes the response.
Emit(c) ==
  /\ pc[c] = "caught"
  /\ responses' = [responses EXCEPT ![c] =
       Append(@, IF caughtBy[c] = "HttpExceptionFilter"
                 THEN HttpExceptionFilterCatch(res[c].err, request[c])
                 ELSE BuiltInFilterCatch(res[c].err))]
  /\ pc' = [pc EXCEPT ![c] = "done"]
  /\ UNCHANGED <<route, request, outer, mwi, mwLog, guardLog, lookup, depth, armed, inner, param, arg,
                 handlerCalls, hres, res, timedOut, events, caughtBy, caughtAt>>

Next ==
  \E c \in Calls :
    \/ Middleware(c)
    \/ Routed(c)
    \/ Guard(c)
    \/ GuardsPassed(c)
    \/ Intercept(c)
    \/ Subscribe(c)
    \/ Pipe(c)
    \/ Invoke(c)
    \/ Complete(c)
    \/ Deadline(c)
    \/ Reply(c)
    \/ Catch(c)
    \/ Emit(c)

Spec == Init /\ [][Next]_vars

\* One call arrives for a route of at most one guard and one interceptor
\* whose controller, or the application, may bind HttpExceptionFilter as well.
OuterScopes == {"controller", "global"}
InitFilters ==
  \E rt \in RoutesOf(Applied, SeqsUpTo(GuardKinds, 1), {"none"},
                     SeqsUpTo(ProvidedKinds, 1)),
     rq \in Requests, above \in SUBSET OuterScopes :
    /\ Arrives(rt, rq)
    /\ Start({1}, [c \in Calls |-> IF c = 1 THEN rt ELSE NoRoute],
                  [c \in Calls |-> IF c = 1 THEN rq ELSE NoRequest],
                  [c \in Calls |-> IF c = 1 THEN above ELSE {}])

SpecFilters == InitFilters /\ [][Next]_vars

\* One call arrives for a route of at most one interceptor, guarded by
\* guards that read no roles, to which apply() binds any stages.
InitMiddleware ==
  \E rt \in RoutesOf(SeqsUpTo(MiddlewareKinds, MaxMiddleware),
                     SeqsUpTo(GuardKinds \ {"RolesGuard"}, MaxGuards), {"none"},
                     SeqsUpTo(ProvidedKinds, 1)),
     rq \in Requests :
    /\ Requested(rt, rq)
    /\ Start({1}, [c \in Calls |-> IF c = 1 THEN rt ELSE NoRoute],
                  [c \in Calls |-> IF c = 1 THEN rq ELSE NoRequest],
                  [c \in Calls |-> {}])

SpecMiddleware == InitMiddleware /\ [][Next]_vars

\* One call arrives for a route of at most one interceptor that RolesGuard
\* guards and whose controller may declare roles of its own.
InitMetadata ==
  \E rt \in RoutesOf(Applied, SeqsUpTo({"AuthGuard", "RolesGuard"}, MaxGuards),
                     {"none", "staff"}, SeqsUpTo(ProvidedKinds, 1)),
     rq \in Requests :
    /\ Requested(rt, rq)
    /\ InSeq("RolesGuard", rt.guards)
    /\ Start({1}, [c \in Calls |-> IF c = 1 THEN rt ELSE NoRoute],
                  [c \in Calls |-> IF c = 1 THEN rq ELSE NoRequest],
                  [c \in Calls |-> {}])

SpecMetadata == InitMetadata /\ [][Next]_vars

\* One call arrives for a route of at most one guard, as the module
\* configures it, whose interceptors may include one that emits nothing.
InitSilent ==
  \E rt \in RoutesOf(Applied, SeqsUpTo(GuardKinds, 1), {"none"},
                     SeqsUpTo(IcptKinds, MaxIcpts)),
     rq \in Requests :
    /\ Requested(rt, rq)
    /\ Start({1}, [c \in Calls |-> IF c = 1 THEN rt ELSE NoRoute],
                  [c \in Calls |-> IF c = 1 THEN rq ELSE NoRequest],
                  [c \in Calls |-> {}])

SpecSilent == InitSilent /\ [][Next]_vars

\* The routes of a call that runs beside another one: no guard, no pipe, a
\* TimeoutInterceptor alone or inside a LoggingInterceptor.
Beside ==
  {[NoRoute EXCEPT !.icpts = icpts] :
     icpts \in {<<"TimeoutInterceptor">>,
                <<"LoggingInterceptor", "TimeoutInterceptor">>}}

\* Two calls are in progress at once: one for a route of at most one guard
\* and one interceptor whose parameter, if any, is the id of the url, one for
\* a route whose deadline can expire.
InitConcurrent ==
  \E rt \in RoutesOf(Applied, SeqsUpTo(GuardKinds, 1), {"none"},
                     SeqsUpTo(ProvidedKinds, 1)),
     rq \in Requests, other \in Beside :
    /\ Arrives(rt, rq)
    /\ rt.pipe # "CustomValidationPipe"
    /\ Start({1, 2}, [c \in Calls |-> CASE c = 1 -> rt [] c = 2 -> other
                                         [] OTHER -> NoRoute],
                     [c \in Calls |-> IF c = 1 THEN rq ELSE NoRequest],
                     [c \in Calls |-> {}])

SpecConcurrent == InitConcurrent /\ [][Next]_vars

\* ------------------------------------------------------------- properties

Answered(c) == pc[c] \in {"respond", "caught", "done"}
Guards(c) == route[c].guards
Icpts(c) == route[c].icpts

\* Guards evaluated so far that returned (or did) `ret`.
SomeGuard(c, ret) == \E i \in 1..Len(guardLog[c]) : guardLog[c][i][2] = ret
EveryGuardTrue(c) ==
  /\ Len(guardLog[c]) = Len(Guards(c))
  /\ \A i \in 1..Len(guardLog[c]) : guardLog[c][i][2] = "true"

\* The guards of the repository in the cases in which their code returns true.
AdmittingGuards(c) ==
  \A i \in 1..Len(Guards(c)) :
    \/ Guards(c)[i] = "AuthGuard"
    \/ Guards(c)[i] = "RolesGuard"
         /\ (route[c].roles = "none" \/ request[c].user # "none")

\* The interceptors of the repository that call next.handle().
CallingIcpts == {"LoggingInterceptor", "TransformInterceptor", "TimeoutInterceptor"}
EveryIcptCalls(c) == \A i \in 1..Len(Icpts(c)) : Icpts(c)[i] \in CallingIcpts

\* The pipe threw: the invocation ended and the handler returned nothing.
PipeRejected(c) == inner[c] = "finished" /\ hres[c] = Pending

\* The only response written for the call, once it is done.
TheResponse(c) == responses[c][1]

\* C1: a call whose guards all returned true (or that has none), whose pipe
\* accepted the parameter and none of whose interceptors short-circuited has
\* run its handler exactly once when it is answered; the guards and
\* interceptors of the repository that admit a call are such a case.  No call
\* runs its handler twice.
C1_HandlerRunsOnce ==
  \A c \in Calls :
    /\ handlerCalls[c] <= 1
    /\ (Answered(c) /\ EveryGuardTrue(c) /\ depth[c] = Len(Icpts(c))
          /\ ~PipeRejected(c)) => handlerCalls[c] = 1
    /\ (Answered(c) /\ AdmittingGuards(c) /\ EveryIcptCalls(c)
          /\ ~PipeRejected(c)) => handlerCalls[c] = 1

C1_Witness ==
  /\ pc[1] = "done"
  /\ Guards(1) = <<"AuthGuard", "RolesGuard">>
  /\ Icpts(1) = <<"LoggingInterceptor", "TransformInterceptor">>
  /\ handlerCalls[1] = 1
  /\ res[1].kind = "ok"

\* C2: once a guard of a call has returned false, the handler is not run,
\* the call fails with the ForbiddenException, an exception filter takes it
\* and the one response written has status 403.
C2_DeniedIsForbidden ==
  \A c \in Calls :
    SomeGuard(c, "false") =>
      /\ handlerCalls[c] = 0
      /\ inner[c] = "idle"
      /\ res[c].kind = "err"
      /\ res[c].err.name = "ForbiddenException"
      /\ res[c].err.status = 403
      /\ pc[c] \in {"caught", "done"} => caughtBy[c] # "none"
      /\ pc[c] = "done" =>
           /\ Len(responses[c]) = 1
           /\ TheResponse(c).status = 403
           /\ TheResponse(c).body.statusCode = 403
           /\ TheResponse(c).body.kind = "error"

C2_Witness ==
  /\ pc[1] = "done"
  /\ guardLog[1] = <<<<"AuthGuard", "true">>, <<"DenyGuard", "false">>>>
  /\ TheResponse(1).status = 403

\* C3: the guards evaluated are the first guards of the route's list, in the
\* order of the list, and every evaluated guard but the last returned true:
\* no guard after the first false is evaluated.
C3_GuardsInOrderUntilFalse ==
  \A c \in Calls :
    /\ Len(guardLog[c]) <= Len(Guards(c))
    /\ \A i \in 1..Len(guardLog[c]) : guardLog[c][i][1] = Guards(c)[i]
    /\ \A i \in 1..(Len(guardLog[c]) - 1) : guardLog[c][i][2] = "true"
    /\ (SomeGuard(c, "false") /\ Len(guardLog[c]) < Len(Guards(c))) =>
         pc[c] # "guards"

C3_Witness ==
  /\ pc[1] = "done"
  /\ Guards(1) = <<"DenyGuard", "AuthGuard">>
  /\ guardLog[1] = <<<<"DenyGuard", "false">>>>

\* C4: once a guard of a call has thrown, the handler is not run and the call
\* fails with the error the guard threw, not with the ForbiddenException: for
\* the UnauthorizedException the response has status 401.
C4_GuardErrorOverrides ==
  \A c \in Calls :
    SomeGuard(c, "throw") =>
      LET g == guardLog[c][Len(guardLog[c])][1] IN
      /\ handlerCalls[c] = 0
      /\ res[c].kind = "err"
      /\ res[c].err.name # "ForbiddenException"
      /\ g = "UnauthGuard" =>
           /\ res[c].err.name = "UnauthorizedException"
           /\ res[c].err.status = 401
           /\ pc[c] = "done" =>
                /\ TheResponse(c).status = 401
                /\ TheResponse(c).body.statusCode = 401
      /\ pc[c] = "done" => TheResponse(c).status # 403

C4_Witness ==
  /\ pc[1] = "done"
  /\ guardLog[1] = <<<<"AuthGuard", "true">>, <<"UnauthGuard", "throw">>>>
  /\ TheResponse(1).status = 401

\* The events of a call through n interceptors that all call next.handle()
\* and whose handler returns: 1.before, .., n.before, handler, n.after, .., 1.after.
Onion(n) ==
  [j \in 1..(2 * n + 1) |->
     IF j <= n THEN Before(j)
     ELSE IF j = n + 1 THEN HandlerRan
     ELSE After(2 * n + 2 - j)]

\* s holds elements of t, in the order they have in t.
RECURSIVE IsSubSeq(_, _)
IsSubSeq(s, t) ==
  IF s = <<>> THEN TRUE
  ELSE IF t = <<>> THEN FALSE
  ELSE IF Head(s) = Head(t) THEN IsSubSeq(Tail(s), Tail(t))
  ELSE IsSubSeq(s, Tail(t))

FirstCache(icpts) ==
  IF InSeq("CacheInterceptor", icpts)
  THEN Min({i \in 1..Len(icpts) : icpts[i] = "CacheInterceptor"})
  ELSE Len(icpts) + 1

\* The TransformInterceptors of the list before position j.
TransformsBefore(icpts, j) ==
  Cardinality({i \in 1..Len(icpts) : i < j /\ icpts[i] = "TransformInterceptor"})

\* p as the data property of an object, n times over.
RECURSIVE Nested(_, _)
Nested(n, p) == IF n = 0 THEN p ELSE <<"data">> \o Nested(n - 1, p)

\* C6: once intercept() of a CacheInterceptor has run in a call, the handler
\* of the call never runs, no interceptor further in is entered, and the call
\* is answered with the cached [], as the interceptors around the cache
\* interceptor hand it on.
C6_CacheHitSkipsHandler ==
  \A c \in Calls :
    \A j \in 1..Len(Icpts(c)) :
      (Icpts(c)[j] = "CacheInterceptor" /\ InSeq(Before(j), events[c])) =>
        /\ handlerCalls[c] = 0
        /\ inner[c] = "idle"
        /\ ~InSeq(HandlerRan, events[c])
        /\ \A k \in (j + 1)..Len(Icpts(c)) : ~InSeq(Before(k), events[c])
        /\ res[c] = Ok(Nested(TransformsBefore(Icpts(c), j), <<"[]">>))
        /\ pc[c] = "done" =>
             /\ Len(responses[c]) = 1
             /\ TheResponse(c).body.payload =
                  Nested(TransformsBefore(Icpts(c), j), <<"[]">>)

C6_Witness ==
  /\ pc[1] = "done"
  /\ Icpts(1) = <<"CacheInterceptor", "LoggingInterceptor">>
  /\ events[1] = <<Before(1)>>
  /\ handlerCalls[1] = 0
  /\ TheResponse(1).body.payload = <<"[]">>

\* C8: a value that reaches the response has been wrapped as {data: ..} once
\* by every TransformInterceptor it passed, and by nothing else: the
\* handler's [] under one TransformInterceptor is answered as {data: []}.
\* An error is not wrapped.
C8_TransformWrapsOnce ==
  \A c \in Calls :
    Answered(c) =>
      LET j == FirstCache(Icpts(c))
          inside == IF j <= Len(Icpts(c)) THEN <<"[]">> ELSE hres[c].val
      IN  /\ res[c].kind = "ok" =>
               res[c].val = Nested(TransformsBefore(Icpts(c), j), inside)
          /\ res[c].kind = "err" => res[c].val = NoPayload
          /\ (pc[c] = "done" /\ res[c].kind = "ok") =>
               TheResponse(c).body.payload = res[c].val

C8_Witness ==
  /\ pc[1] = "done"
  /\ Icpts(1) = <<"TransformInterceptor">>
  /\ hres[1] = Ok(<<"[]">>)
  /\ TheResponse(1).body.payload = <<"data", "[]">>

\* The error the pipes-and-handler invocation of a call ended with.
InnerError(c) == IF hres[c].kind = "err" THEN hres[c].err ELSE BadRequestException

C9_WitnessOtherError ==
  /\ pc[1] = "done"
  /\ Icpts(1) = <<"TimeoutInterceptor">>
  /\ ~timedOut[1]
  /\ hres[1] = Fail(CustomForbiddenException)
  /\ res[1] = Fail(CustomForbiddenException)

\* The handler of the call returned or threw while the response path waited
\* for it: no deadline expired first.
CompletedInTime(c) == hres[c] # Pending /\ ~timedOut[c]

\* C10: under a TimeoutInterceptor, a call whose handler returns or throws
\* before a deadline expires is answered with what the handler returned
\* (wrapped by the TransformInterceptors it passes, by nothing else) or with
\* the error it threw; from then on no deadline expires for the call and its
\* result does not change.
C10_InTimeResultUnmodified ==
  /\ [](\A c \in Calls :
         (InSeq("TimeoutInterceptor", Icpts(c)) /\ CompletedInTime(c)) =>
           /\ Answered(c)
           /\ armed[c] = {}
           /\ res[c] = IF hres[c].kind = "ok"
                       THEN Ok(Nested(TransformsBefore(Icpts(c), Len(Icpts(c)) + 1),
                                      hres[c].val))
                       ELSE hres[c])
  /\ [][\A c \in Calls :
         (InSeq("TimeoutInterceptor", Icpts(c)) /\ CompletedInTime(c)) =>
           /\ ~timedOut'[c]
           /\ res'[c] = res[c]
           /\ hres'[c] = hres[c]]_vars

C10_Witness ==
  /\ pc[1] = "done"
  /\ Icpts(1) = <<"LoggingInterceptor", "TimeoutInterceptor">>
  /\ hres[1] = Ok(<<"hello">>)
  /\ ~timedOut[1]
  /\ TheResponse(1).body.payload = <<"hello">>

\* C11: in the race between the handler and the timer the first to settle
\* decides the call.  Once a deadline has expired the call's outcome is the
\* RequestTimeoutException, whether or not the handler's result arrives
\* later, and the result is not delivered; a result that arrived in time
\* excludes the timeout.  Under every interleaving the response is written
\* at most once, and exactly once when the call is done.
C11_TimerRaceWritesOnce ==
  \A c \in Calls :
    /\ Len(responses[c]) <= 1
    /\ (Len(responses[c]) = 1) = (pc[c] = "done")
    /\ timedOut[c] =>
         /\ res[c] = Fail(RequestTimeoutException)
         /\ \A k \in 1..Len(responses[c]) :
              /\ responses[c][k].status = 408
              /\ responses[c][k].body.kind = "error"
    /\ (Answered(c) /\ hres[c] # Pending /\ res[c] # Fail(RequestTimeoutException))
         => ~timedOut[c]

\* The timer won, the handler returned afterwards, and one 408 was written.
C11_Witness ==
  /\ pc[1] = "done"
  /\ timedOut[1]
  /\ hres[1] = Ok(<<"hello">>)
  /\ inner[1] = "finished"
  /\ Len(responses[1]) = 1
  /\ TheResponse(1).status = 408

\* The positions of the route's LoggingInterceptors, and where an event
\* stands in the events of a call (0 when it has not occurred).
LoggingAt(c) == {i \in 1..Len(Icpts(c)) : Icpts(c)[i] = "LoggingInterceptor"}
Occurrences(c, e) == {k \in 1..Len(events[c]) : events[c][k] = e}
Occurs(c, e) == Occurrences(c, e) # {}
Precedes(c, e, f) ==
  \A k \in Occurrences(c, e), m \in Occurrences(c, f) : k < m

\* The producer inside the interceptors has completed, with a value or with
\* an error, and no deadline took the call away before.
InnerCompleted(c) == Answered(c) /\ inner[c] = "finished" /\ ~timedOut[c]

\* What the pipe or the handler emitted.
InnerResult(c) == IF hres[c] # Pending THEN hres[c] ELSE Fail(BadRequestException)

\* The start marker of every LoggingInterceptor that was entered is recorded
\* before the handler runs.
LoggingStartsFirst(c) ==
  \A i \in LoggingAt(c) :
    depth[c] >= i =>
      /\ Cardinality(Occurrences(c, Before(i))) = 1
      /\ Precedes(c, Before(i), HandlerRan)
      /\ Precedes(c, Before(i), After(i))

\* With no other interceptor than LoggingInterceptors on the route, what
\* reaches the response stage is what the pipe or the handler emitted.
LoggingReemits(c) ==
  (InnerCompleted(c) /\ LoggingAt(c) = 1..Len(Icpts(c))) => res[c] = InnerResult(c)

\* C12 as stated: the start marker comes first, the elapsed time is recorded
\* after the inner producer completes, with success or with failure, and the
\* value or error is re-emitted unchanged.
C12_LoggingRecordsOnFailureToo ==
  \A c \in Calls :
    /\ LoggingStartsFirst(c)
    /\ \A i \in LoggingAt(c) : InnerCompleted(c) => Occurs(c, After(i))
    /\ LoggingReemits(c)

\* C12 (amended): the start marker of a LoggingInterceptor is recorded before
\* the handler is invoked; the elapsed time is recorded, once and after the
\* handler, when a value passes the interceptor, and is not recorded when
\* the call fails; the value or error is re-emitted unchanged.
C12_LoggingRecordsOnValue ==
  \A c \in Calls :
    /\ LoggingStartsFirst(c)
    /\ \A i \in LoggingAt(c) :
         /\ (Answered(c) /\ depth[c] >= i /\ res[c].kind = "ok") =>
              /\ Cardinality(Occurrences(c, After(i))) = 1
              /\ Precedes(c, HandlerRan, After(i))
         /\ (Answered(c) /\ res[c].kind = "err") => ~Occurs(c, After(i))
    /\ LoggingReemits(c)

\* The handler threw inside a LoggingInterceptor: the start marker and the
\* handler were recorded, the elapsed time was not, the error went on.
C12_Witness ==
  /\ pc[1] = "done"
  /\ Icpts(1) = <<"LoggingInterceptor">>
  /\ hres[1] = Fail(CustomForbiddenException)
  /\ res[1] = Fail(CustomForbiddenException)
  /\ events[1] = <<Before(1), HandlerRan>>

\* The pipe of the call has been run.
PipeRan(c) == inner[c] \in {"ready", "running", "finished"}

\* The violations validate() reports for what the pipe of the call was given.
Violations(c) == validate(plainToInstance(param[c].metatype, param[c].value))

\* C13: when CustomValidationPipe is given a target type that is not native,
\* it validates; if the validation of the converted instance reports a
\* violation the pipe throws BadRequestException, the handler is not invoked
\* and the call fails with that error; if it reports none the handler's
\* parameter is the raw value itself, not the instance made from it.
C13_ValidationRejectsOrPassesRaw ==
  \A c \in Calls :
    (/\ route[c].pipe = "CustomValidationPipe"
     /\ PipeRan(c)
     /\ param[c].metatype \notin NativeTypes \cup {"undefined"}) =>
      /\ param[c].validated
      /\ Len(Violations(c)) >= 1 =>
           /\ PipeRejected(c)
           /\ handlerCalls[c] = 0
           /\ ~Occurs(c, HandlerRan)
           /\ arg[c] = Undefined
           /\ Answered(c)
           /\ res[c] = Fail(BadRequestException)
      /\ Len(Violations(c)) = 0 =>
           /\ ~PipeRejected(c)
           /\ arg[c] = param[c].value
           /\ arg[c].cls # param[c].metatype

\* {age: -1} for a CreateCatDto: answered with 400, the handler never ran.
C13_Witness ==
  /\ pc[1] = "done"
  /\ route[1].pipe = "CustomValidationPipe"
  /\ param[1] = Param(Plain(0 - 1), "CreateCatDto", TRUE)
  /\ handlerCalls[1] = 0
  /\ TheResponse(1).status = 400

\* {age: 1} for a CreateCatDto: the handler ran with the plain object.
C13_WitnessPassed ==
  /\ pc[1] = "done"
  /\ route[1].pipe = "CustomValidationPipe"
  /\ param[1] = Param(Plain(1), "CreateCatDto", TRUE)
  /\ handlerCalls[1] = 1
  /\ arg[1] = Plain(1)

\* C14: when CustomValidationPipe is given one of the native target types
\* String, Boolean, Number, Array, Object, or none, it does not run the
\* validation, does not throw, and the handler's parameter is the raw value.
C14_NativeTypesBypass ==
  \A c \in Calls :
    (/\ route[c].pipe = "CustomValidationPipe"
     /\ PipeRan(c)
     /\ param[c].metatype \in NativeTypes \cup {"undefined"}) =>
      /\ ~param[c].validated
      /\ ~PipeRejected(c)
      /\ inner[c] = "finished" => hres[c] # Pending
      /\ arg[c] = param[c].value

\* {age: -1} declared as Object reaches the handler as it is.
C14_Witness ==
  /\ pc[1] = "done"
  /\ route[1].pipe = "CustomValidationPipe"
  /\ param[1] = Param(Plain(0 - 1), "Object", FALSE)
  /\ handlerCalls[1] = 1
  /\ arg[1] = Plain(0 - 1)

\* A parameter without a declared type: the same.
C14_WitnessNoType ==
  /\ pc[1] = "done"
  /\ route[1].pipe = "CustomValidationPipe"
  /\ param[1] = Param(Str(<<"1", "2">>), "undefined", FALSE)
  /\ handlerCalls[1] = 1
  /\ arg[1] = Str(<<"1", "2">>)

\* C15: on a route whose parameter goes through ParseIntPipe, once the pipe
\* has run either the parameter is a number and it is what the handler is
\* invoked with, or the pipe threw BadRequestException, the call fails with
\* it and the handler is never invoked; the raw value "1a" never reaches
\* the handler.
C15_ParseIntNumberOrBadRequest ==
  \A c \in Calls :
    route[c].pipe = "ParseIntPipe" =>
      /\ handlerCalls[c] >= 1 => (arg[c].type = "number" /\ ~PipeRejected(c))
      /\ PipeRan(c) =>
           \/ /\ arg[c].type = "number"
              /\ ~PipeRejected(c)
           \/ /\ PipeRejected(c)
              /\ arg[c] = Undefined
              /\ handlerCalls[c] = 0
              /\ ~Occurs(c, HandlerRan)
              /\ Answered(c)
              /\ res[c] = Fail(BadRequestException)
      /\ (PipeRan(c) /\ param[c].value = Str(<<"1", "a">>)) => PipeRejected(c)
      /\ (PipeRan(c) /\ param[c].value = Str(<<"1", "2">>)) => arg[c] = Num(12)
      /\ (PipeRan(c) /\ param[c].value = Str(<<"-", "2">>)) => arg[c] = Num(0 - 2)

\* "1a" for a number: answered with 400, the handler never ran.
C15_Witness ==
  /\ pc[1] = "done"
  /\ route[1].pipe = "ParseIntPipe"
  /\ param[1].value = Str(<<"1", "a">>)
  /\ handlerCalls[1] = 0
  /\ TheResponse(1).status = 400

\* "12": the handler ran with the number 12.
C15_WitnessParsed ==
  /\ pc[1] = "done"
  /\ route[1].pipe = "ParseIntPipe"
  /\ param[1].value = Str(<<"1", "2">>)
  /\ handlerCalls[1] = 1
  /\ arg[1] = Num(12)

\* C16: when HttpExceptionFilter has taken an error, the response it writes
\* has the error's status as its status code, and its body holds that status
\* as statusCode, a timestamp and the url of the request as path, and
\* nothing else: no payload, no message, no error name.
C16_FilterBodyStatusTimestampPath ==
  \A c \in Calls :
    (pc[c] = "done" /\ caughtBy[c] = "HttpExceptionFilter") =>
      /\ res[c].kind = "err"
      /\ res[c].err.http
      /\ Len(responses[c]) = 1
      /\ TheResponse(c).status = res[c].err.status
      /\ TheResponse(c).body.kind = "error"
      /\ TheResponse(c).body.statusCode = res[c].err.status
      /\ TheResponse(c).body.timestamp = "now"
      /\ TheResponse(c).body.path = request[c].url
      /\ TheResponse(c).body.payload = NoPayload
      /\ TheResponse(c).body.message = ""
      /\ TheResponse(c).body.error = ""
      /\ res[c].err.msg # ""

\* getException: the handler throws CustomForbiddenException under
\* @UseFilters(new HttpExceptionFilter()).
C16_Witness ==
  /\ pc[1] = "done"
  /\ route[1].filter
  /\ hres[1] = Fail(CustomForbiddenException)
  /\ caughtBy[1] = "HttpExceptionFilter"
  /\ TheResponse(1) =
       Response(403, Body("error", NoPayload, 403, "now", "/cats", "", ""))

\* The same filter on a route requested as /12.
C16_WitnessIdUrl ==
  /\ pc[1] = "done"
  /\ caughtBy[1] = "HttpExceptionFilter"
  /\ request[1].url = "/12"
  /\ TheResponse(1).body.path = "/12"

\* C17: a call has one outcome, a value or an error and never both, from the
\* moment it is answered, and none before; a call that is done has written
\* exactly one response: for a value a 2xx status with the value as payload
\* and no filter involved, for an error one error body with one status that
\* is not 2xx, written by the one filter that took the error.  A call that
\* still waits for its handler is not stuck.
C17_OneOutcomeOneErrorBody ==
  \A c \in Calls :
    /\ res[c].kind \in {"none", "ok", "err"}
    /\ res[c].kind = "none" => res[c] = Pending
    /\ res[c].kind = "ok" => (res[c].err = NoErr /\ res[c].val # NoPayload)
    /\ res[c].kind = "err" => (res[c].val = NoPayload /\ res[c].err # NoErr)
    /\ Answered(c) = (res[c] # Pending)
    /\ pc[c] = "inner" => inner[c] \in {"pipes", "ready", "running"}
    /\ Len(responses[c]) = (IF pc[c] = "done" THEN 1 ELSE 0)
    /\ pc[c] = "done" =>
         /\ res[c].kind = "ok" =>
              /\ TheResponse(c).status \in 200..299
              /\ TheResponse(c).body.kind = "payload"
              /\ TheResponse(c).body.payload = res[c].val
              /\ caughtBy[c] = "none"
         /\ res[c].kind = "err" =>
              /\ TheResponse(c).status \in 400..599
              /\ TheResponse(c).body.kind = "error"
              /\ TheResponse(c).body.payload = NoPayload
              /\ TheResponse(c).body.statusCode = TheResponse(c).status
              /\ caughtBy[c] \in {"HttpExceptionFilter", "BuiltInFilter"}

\* A handler exception taken by HttpExceptionFilter: one body, status 403.
C17_Witness ==
  /\ pc[1] = "done"
  /\ hres[1] = Fail(CustomForbiddenException)
  /\ res[1] = Fail(CustomForbiddenException)
  /\ caughtBy[1] = "HttpExceptionFilter"
  /\ Len(responses[1]) = 1
  /\ TheResponse(1).status = 403
  /\ TheResponse(1).body.kind = "error"

\* The scopes that bind HttpExceptionFilter for the call.
Bound(c) == BoundAt(route[c], outer[c])

\* C18: an error is handled at exactly one scope: at the most specific of
\* method, controller and global that binds a filter whose @Catch includes
\* the error's class, and by the built-in filter when there is none.  A
\* bound HttpExceptionFilter does not handle an error that is no
\* HttpException, at whatever scope it is bound.
C18_MostSpecificScopeHandles ==
  \A c \in Calls :
    /\ (pc[c] \in {"caught", "done"} /\ res[c].kind = "err") =>
         LET e == res[c].err
         IN  /\ caughtAt[c] \in {"method", "controller", "global", BuiltIn}
             /\ caughtAt[c] # BuiltIn =>
                  /\ caughtAt[c] \in Bound(c)
                  /\ e.http
                  /\ caughtBy[c] = "HttpExceptionFilter"
             /\ (e.http /\ "method" \in Bound(c)) => caughtAt[c] = "method"
             /\ (e.http /\ "method" \notin Bound(c) /\ "controller" \in Bound(c))
                  => caughtAt[c] = "controller"
             /\ (e.http /\ Bound(c) = {"global"}) => caughtAt[c] = "global"
             /\ (~e.http \/ Bound(c) = {}) =>
                  (caughtAt[c] = BuiltIn /\ caughtBy[c] = "BuiltInFilter")
             /\ pc[c] = "done" =>
                  /\ Len(responses[c]) = 1
                  /\ (TheResponse(c).body.timestamp = "now") = (caughtAt[c] # BuiltIn)
    /\ ~(pc[c] \in {"caught", "done"} /\ res[c].kind = "err") =>
         (caughtAt[c] = "none" /\ caughtBy[c] = "none")

\* The filter is bound at all three scopes: the method's handles.
C18_Witness ==
  /\ pc[1] = "done"
  /\ Bound(1) = {"method", "controller", "global"}
  /\ hres[1] = Fail(CustomForbiddenException)
  /\ caughtAt[1] = "method"
  /\ Len(responses[1]) = 1

\* Bound at controller and global scope only: the controller's handles.
C18_WitnessController ==
  /\ pc[1] = "done"
  /\ Bound(1) = {"controller", "global"}
  /\ hres[1] = Fail(CustomForbiddenException)
  /\ caughtAt[1] = "controller"

\* An error that is no HttpException passes the bound filters.
C18_WitnessNotCaught ==
  /\ pc[1] = "done"
  /\ Bound(1) = {"method", "controller", "global"}
  /\ hres[1] = Fail(PlainError)
  /\ caughtAt[1] = BuiltIn
  /\ TheResponse(1).status = 500

\* An answered error that no filter bound at method or controller scope took.
FellThrough(c) ==
  /\ pc[c] = "done"
  /\ res[c].kind = "err"
  /\ caughtAt[c] \notin {"method", "controller"}

GenericMessage == "Internal server error"

\* C19 as stated: every error that no filter of method or controller scope
\* matches is answered by the default boundary as an InternalServerError
\* with the generic message.
C19_UnmatchedIsInternalServerError ==
  \A c \in Calls :
    FellThrough(c) =>
      /\ TheResponse(c).status = 500
      /\ TheResponse(c).body.message = GenericMessage

\* C19 (amended): an error that no filter of method or controller scope
\* matches falls through to the global scope.  When it is no HttpException
\* the built-in filter answers it with 500 and the generic message, and
\* neither the error's message nor its name is in the body; an HttpException
\* is answered with its own status.
C19_UnrecognizedIsInternalServerError ==
  \A c \in Calls :
    FellThrough(c) =>
      LET e == res[c].err
          r == TheResponse(c)
      IN  /\ ~e.http =>
               /\ caughtAt[c] = BuiltIn
               /\ r.status = 500
               /\ r.body = Body("error", NoPayload, 500, "", "", GenericMessage, "")
               /\ e.msg # ""
               /\ r.body.message # e.msg
               /\ r.body.error # e.name
          /\ e.http =>
               /\ r.status = e.status
               /\ r.body.statusCode = e.status
               /\ r.status # 500

\* getException's filter is bound, the handler throws a plain Error: the
\* filter's @Catch does not include it and the built-in filter answers.
C19_Witness ==
  /\ pc[1] = "done"
  /\ route[1].filter
  /\ hres[1] = Fail(PlainError)
  /\ caughtBy[1] = "BuiltInFilter"
  /\ TheResponse(1).status = 500
  /\ TheResponse(1).body.message = GenericMessage

\* The state of the exception boundary of a call.
BoundaryState(c) ==
  IF pc[c] = "caught" THEN "ErrorCaught"
  ELSE IF pc[c] = "done" /\ caughtBy[c] # "none" THEN "ResponseEmitted"
  ELSE "Idle"

\* C20: the exception boundary of a call goes from Idle to ErrorCaught, when
\* it takes the error the call failed with, and from ErrorCaught to
\* ResponseEmitted, when it writes the one response; it never goes back,
\* ResponseEmitted is final, and from ErrorCaught on the error, the filter
\* that took it and (once written) the response do not change, whatever
\* happens later in the call.
C20_BoundaryStateMachine ==
  /\ [](\A c \in Calls :
         /\ BoundaryState(c) = "ErrorCaught" =>
              (res[c].kind = "err" /\ caughtBy[c] # "none" /\ responses[c] = <<>>)
         /\ BoundaryState(c) = "ResponseEmitted" =>
              (res[c].kind = "err" /\ Len(responses[c]) = 1)
         /\ (BoundaryState(c) = "Idle" /\ res[c].kind = "err") => pc[c] = "respond")
  /\ [][\A c \in Calls :
         /\ BoundaryState(c) = "Idle" =>
              /\ BoundaryState(c)' \in {"Idle", "ErrorCaught"}
              /\ BoundaryState(c)' = "ErrorCaught" =>
                   (res[c].kind = "err" /\ res'[c] = res[c])
         /\ BoundaryState(c) = "ErrorCaught" =>
              /\ BoundaryState(c)' \in {"ErrorCaught", "ResponseEmitted"}
              /\ res'[c] = res[c]
              /\ caughtBy'[c] = caughtBy[c]
              /\ BoundaryState(c)' = "ErrorCaught" => responses'[c] = responses[c]
         /\ BoundaryState(c) = "ResponseEmitted" =>
              /\ BoundaryState(c)' = "ResponseEmitted"
              /\ res'[c] = res[c]
              /\ caughtBy'[c] = caughtBy[c]
              /\ responses'[c] = responses[c]]_vars

\* The boundary answered a timeout with 408 and the handler threw afterwards:
\* the late error is not raised.
C20_Witness ==
  /\ BoundaryState(1) = "ResponseEmitted"
  /\ timedOut[1]
  /\ hres[1] = Fail(PlainError)
  /\ res[1] = Fail(RequestTimeoutException)
  /\ Len(responses[1]) = 1

\* What the stages of a call's log did.
Did(c, does) == \E i \in 1..Len(mwLog[c]) : mwLog[c][i][2] = does

\* Nothing behind the middleware has run for the call.
NothingRouted(c) ==
  /\ guardLog[c] = <<>>
  /\ events[c] = <<>>
  /\ inner[c] = "idle"
  /\ handlerCalls[c] = 0
  /\ res[c] = Pending

\* C21: the middleware stages that have run are the first stages of the
\* route's list, in the order of the list, each run once, and every stage
\* but the last one run called next(); a stage that ended the cycle wrote the
\* only response and nothing behind it runs; after a stage that did neither
\* the request hangs: no response, nothing behind it runs.  LoggerMiddleware
\* calls next() each time it runs and never ends the response, so that a
\* request it is the only stage of always reaches the route.
C21_MiddlewareInOrderNextOrEnd ==
  \A c \in Calls :
    LET mw == route[c].mw
        n == Len(mwLog[c])
    IN  /\ n <= Len(mw)
        /\ \A i \in 1..n : mwLog[c][i][1] = mw[i]
        /\ \A i \in 1..(n - 1) : mwLog[c][i][2] = "next"
        /\ mwi[c] = Cardinality({i \in 1..n : mwLog[c][i][2] = "next"})
        /\ Did(c, "end") =>
             /\ pc[c] = "done"
             /\ responses[c] = <<MiddlewareEnd>>
             /\ NothingRouted(c)
        /\ Did(c, "neither") =>
             /\ pc[c] = "hanging"
             /\ responses[c] = <<>>
             /\ NothingRouted(c)
        /\ pc[c] \notin {"off", "mw", "hanging"} /\ ~Did(c, "end") =>
             /\ n = Len(mw)
             /\ \A i \in 1..n : mwLog[c][i][2] = "next"
        /\ \A i \in 1..n :
             mwLog[c][i][1] = "LoggerMiddleware" => mwLog[c][i][2] = "next"
        /\ (\A i \in 1..Len(mw) : mw[i] = "LoggerMiddleware") =>
             pc[c] \notin {"hanging"} /\ ~Did(c, "end")

C21_Witness ==
  /\ route[1].mw = <<"LoggerMiddleware", "EndingMiddleware">>
  /\ mwLog[1] = <<<<"LoggerMiddleware", "next">>, <<"EndingMiddleware", "end">>>>
  /\ pc[1] = "done"

C21_WitnessHanging ==
  /\ route[1].mw = <<"SilentMiddleware", "LoggerMiddleware">>
  /\ mwLog[1] = <<<<"SilentMiddleware", "neither">>>>
  /\ pc[1] = "hanging"

C21_WitnessLogger ==
  /\ route[1].mw = <<"LoggerMiddleware", "LoggerMiddleware">>
  /\ mwLog[1] = <<<<"LoggerMiddleware", "next">>, <<"LoggerMiddleware", "next">>>>
  /\ handlerCalls[1] = 1
  /\ pc[1] = "done"

\* Every middleware stage of the call's route has run and called next().
EveryStageCalledNext(c) ==
  /\ mwi[c] = Len(route[c].mw)
  /\ Len(mwLog[c]) = Len(route[c].mw)
  /\ \A i \in 1..Len(mwLog[c]) : mwLog[c][i][2] = "next"

\* An interceptor's intercept() or the pipe of the call has run, or the
\* invocation they lead to has begun.
BehindGuards(c) ==
  \/ events[c] # <<>>
  \/ depth[c] > 0
  \/ inner[c] # "idle"
  \/ param[c] # NoParam
  \/ handlerCalls[c] > 0

\* C23: a guard of a call has been evaluated only when every middleware
\* stage of its route has run and called next(), and an interceptor's
\* before-phase or a pipe has run only when every guard of the route has been
\* evaluated and returned true.
C23_GuardsAfterMiddlewareBeforeInterceptors ==
  \A c \in Calls :
    /\ guardLog[c] # <<>> => EveryStageCalledNext(c)
    /\ pc[c] = "guards" => EveryStageCalledNext(c) /\ ~BehindGuards(c)
    /\ BehindGuards(c) => EveryGuardTrue(c) /\ EveryStageCalledNext(c)

C23_Witness ==
  /\ route[1].mw = <<"LoggerMiddleware", "LoggerMiddleware">>
  /\ Guards(1) = <<"AuthGuard", "AuthGuard">>
  /\ Icpts(1) = <<"LoggingInterceptor">>
  /\ route[1].pipe = "CustomValidationPipe"
  /\ events[1] = <<Before(1)>>
  /\ param[1] # NoParam

C23_WitnessDenied ==
  /\ route[1].mw = <<"LoggerMiddleware">>
  /\ guardLog[1] = <<<<"AuthGuard", "true">>, <<"DenyGuard", "false">>>>
  /\ Icpts(1) = <<"LoggingInterceptor">>
  /\ pc[1] = "done"
  /\ events[1] = <<>>

\* The before-phase of every interceptor of the call's route has run, in the
\* order of the list, ahead of every other event of the call.
EveryBeforeRan(c) ==
  /\ depth[c] = Len(Icpts(c))
  /\ Len(events[c]) >= Len(Icpts(c))
  /\ \A i \in 1..Len(Icpts(c)) : events[c][i] = Before(i)

\* C24 as stated: the pipe has completed whenever the before-phase of an
\* interceptor of the call has run.
C24_PipesBeforeInterceptors ==
  \A c \in Calls : events[c] # <<>> => PipeRan(c)

\* C24, amended: the stages of a call run in the order middleware, guards,
\* interceptor before-phases, pipe, handler, interceptor after-phases.  An
\* interceptor's before-phase runs only after every guard returned true; the
\* pipe runs only after the before-phase of every interceptor of the route
\* has completed; the handler runs only after the pipe accepted the parameter;
\* and no before-phase follows the handler or an after-phase.
C24_InterceptorsBeforePipes ==
  \A c \in Calls :
    /\ events[c] # <<>> => EveryGuardTrue(c) /\ mwi[c] = Len(route[c].mw)
    /\ inner[c] # "idle" => EveryBeforeRan(c)
    /\ PipeRan(c) => param[c] # NoParam
    /\ handlerCalls[c] > 0 =>
         /\ PipeRan(c)
         /\ ~PipeRejected(c)
         /\ Occurs(c, HandlerRan)
    /\ \A j \in 1..Len(events[c]), k \in 1..Len(events[c]) :
         (j < k /\ events[c][j].ev \in {"handler", "after"}) =>
           /\ events[c][k].ev = "after"
           /\ events[c][j].ev = "after" => events[c][k].at < events[c][j].at

C24_Witness ==
  /\ Icpts(1) = <<"LoggingInterceptor", "TransformInterceptor">>
  /\ route[1].pipe = "CustomValidationPipe"
  /\ events[1] = <<Before(1), Before(2)>>
  /\ PipeRejected(1)

C24_WitnessHandled ==
  /\ Icpts(1) = <<"LoggingInterceptor", "TransformInterceptor">>
  /\ route[1].pipe = "ParseIntPipe"
  /\ events[1] = <<Before(1), Before(2), HandlerRan, After(2), After(1)>>
  /\ pc[1] = "done"

\* The error of the guard that stopped the call: the ForbiddenException for a
\* false, what the guard threw otherwise.
GuardError(c) ==
  LET last == guardLog[c][Len(guardLog[c])]
  IN  IF last[2] = "false" THEN GuardDenied
      ELSE canActivate(last[1], route[c], request[c]).err

C25_WitnessPipe ==
  /\ Icpts(1) = <<"TransformInterceptor", "LoggingInterceptor">>
  /\ PipeRejected(1)
  /\ res[1] = Fail(BadRequestException)
  /\ pc[1] = "done"

C25_WitnessDeadline ==
  /\ Icpts(1) = <<"LoggingInterceptor", "TimeoutInterceptor">>
  /\ timedOut[1]
  /\ hres[1] = Fail(PlainError)
  /\ res[1] = Fail(RequestTimeoutException)
  /\ pc[1] = "done"

\* The nearest enclosing declaration of the roles of a route: the method's,
\* or the controller's when the method declares none.
Nearest(rt) == IF rt.roles # "none" THEN rt.roles ELSE rt.classRoles

\* RolesGuard was evaluated for the call.
RolesGuardRan(c) == lookup[c].ran

\* C26 as stated: the roles RolesGuard looked up are the nearest enclosing
\* declaration, the controller's when the method declares none.
C26_LookupReturnsNearestDeclaration ==
  \A c \in Calls : RolesGuardRan(c) => lookup[c].roles = Nearest(route[c])

\* C26, amended: the roles RolesGuard looked up are the ones the method
\* declares; they are absent exactly when the method declares none, whatever
\* the controller declares, and a method-level declaration is returned in
\* place of a controller-level one.
C26_LookupReturnsMethodDeclaration ==
  \A c \in Calls :
    RolesGuardRan(c) =>
      /\ lookup[c].roles = route[c].roles
      /\ (lookup[c].roles = "none") = (route[c].roles = "none")
      /\ route[c].roles # "none" => lookup[c].roles # route[c].classRoles

C26_Witness ==
  /\ RolesGuardRan(1)
  /\ route[1].roles = "none"
  /\ route[1].classRoles = "staff"
  /\ lookup[1].roles = "none"
  /\ guardLog[1] = <<<<"RolesGuard", "true">>>>

C26_WitnessOverride ==
  /\ RolesGuardRan(1)
  /\ route[1].roles = "admin"
  /\ route[1].classRoles = "staff"
  /\ lookup[1].roles = "admin"

\* The roles a user holds.
UserRoles(user) == IF user = "none" THEN {} ELSE {user}

\* C27: a call by a user whose roles do not cover the roles the handler
\* declares, on a route guarded by RolesGuard, does not run the handler, and
\* once RolesGuard was evaluated the call fails with the ForbiddenException
\* and is answered with status 403.
C27_UncoveredRolesDenied ==
  \A c \in Calls :
    (/\ InSeq("RolesGuard", Guards(c))
     /\ route[c].roles # "none"
     /\ request[c].user # "none"
     /\ route[c].roles \notin UserRoles(request[c].user)) =>
      /\ handlerCalls[c] = 0
      /\ RolesGuardRan(c) =>
           /\ SomeGuard(c, "false")
           /\ res[c] = Fail(ForbiddenException)
           /\ pc[c] = "done" => TheResponse(c).status = 403

\* The outcomes of the evaluations of RolesGuard in the call's log.
RolesGuardOutcomes(c) ==
  {guardLog[c][i][2] : i \in {j \in 1..Len(guardLog[c]) : guardLog[c][j][1] = "RolesGuard"}}

\* C30: when the method of a route declares no roles, every evaluation of
\* RolesGuard returned true and the guard did not read request.user, whoever
\* the caller is (no user attached included) and whatever else is declared.
C30_NoRolesAdmittedUnread ==
  \A c \in Calls :
    (RolesGuardRan(c) /\ route[c].roles = "none") =>
      /\ RolesGuardOutcomes(c) = {"true"}
      /\ ~lookup[c].user
      /\ lookup[c].roles = "none"

C30_Witness ==
  /\ Guards(1) = <<"AuthGuard", "RolesGuard">>
  /\ route[1].roles = "none"
  /\ request[1].user = "none"
  /\ guardLog[1] = <<<<"AuthGuard", "true">>, <<"RolesGuard", "true">>>>
  /\ handlerCalls[1] = 1
  /\ pc[1] = "done"

C30_WitnessGuest ==
  /\ Guards(1) = <<"RolesGuard">>
  /\ route[1].roles = "none"
  /\ route[1].classRoles = "staff"
  /\ request[1].user = "guest"
  /\ guardLog[1] = <<<<"RolesGuard", "true">>>>
  /\ ~lookup[1].user

\* The positions of the route's list at which an interceptor that emits
\* nothing stands and whose intercept() has run.
SilentEntered(c) ==
  {i \in 1..Len(Icpts(c)) : Icpts(c)[i] = "SilentInterceptor" /\ Occurs(c, Before(i))}

\* A TimeoutInterceptor stands before position i of the call's list.
TimeoutOutside(c, i) == \E j \in 1..(i - 1) : Icpts(c)[j] = "TimeoutInterceptor"

\* C29 as stated: once an interceptor that neither calls next.handle() nor
\* emits a result has run, the call is never answered and the handler is
\* never run.
C29_SilentInterceptorStalls ==
  \A c \in Calls :
    SilentEntered(c) # {} =>
      /\ ~Answered(c)
      /\ responses[c] = <<>>
      /\ handlerCalls[c] = 0

\* C29, amended: once an interceptor that neither calls next.handle() nor
\* emits a result has run, the pipe and the handler never run; with no
\* TimeoutInterceptor outside it the call waits for ever, with no result, no
\* error and no response; with one outside it the call either still waits or
\* has failed with the RequestTimeoutException of the deadline.
C29_SilentInterceptorStallsUntilDeadline ==
  \A c \in Calls :
    \A i \in SilentEntered(c) :
      /\ handlerCalls[c] = 0
      /\ inner[c] = "idle"
      /\ depth[c] = i - 1
      /\ ~TimeoutOutside(c, i) =>
           /\ pc[c] = "waiting"
           /\ res[c] = Pending
           /\ responses[c] = <<>>
      /\ pc[c] # "waiting" =>
           /\ timedOut[c]
           /\ res[c] = Fail(RequestTimeoutException)
           /\ pc[c] = "done" => TheResponse(c).status = 408

C29_Witness ==
  /\ Icpts(1) = <<"LoggingInterceptor", "SilentInterceptor">>
  /\ events[1] = <<Before(1), Before(2)>>
  /\ pc[1] = "waiting"

C29_WitnessDeadline ==
  /\ Icpts(1) = <<"TimeoutInterceptor", "SilentInterceptor">>
  /\ events[1] = <<Before(1), Before(2), After(1)>>
  /\ pc[1] = "done"
  /\ TheResponse(1).status = 408

\* What the guards of a route answer a request with, from guard i on: Pending
\* when all of them return true, the error of the first that does not.
RECURSIVE GuardsAlone(_, _, _)
GuardsAlone(rt, rq, i) ==
  IF i > Len(rt.guards) THEN Pending
  ELSE LET v == GuardVerdict(canActivate(rt.guards[i], rt, rq))
       IN  IF v.go THEN GuardsAlone(rt, rq, i + 1) ELSE v.res

\* The outcome of a call that is run alone for route rt with request rq, when
\* its pipe is given `given`, its handler returns or throws h and its
\* deadline expires (late) or not: what reaches the response stage, and how
\* often the handler runs.
Alone(rt, rq, given, h, late) ==
  LET n == Len(rt.icpts)
      denied == GuardsAlone(rt, rq, 1)
      short == {i \in 1..n : ~intercept(rt.icpts[i]).handle}
      timers == {i \in 1..n : intercept(rt.icpts[i]).timer}
      t == transform(rt.pipe, given.value, given.metatype)
      Through(i, r) == Unwind(rt.icpts, i, [res |-> r, events |-> <<>>]).res
  IN  IF denied # Pending THEN [res |-> denied, calls |-> 0]
      ELSE IF short # {}
      THEN [res |-> Through(Min(short) - 1, intercept(rt.icpts[Min(short)]).subst),
            calls |-> 0]
      ELSE IF ~t.ok THEN [res |-> Through(n, Fail(t.err)), calls |-> 0]
      ELSE IF late THEN [res |-> Through(Min(timers), Fail(TimeoutError)), calls |-> 1]
      ELSE [res |-> Through(n, h), calls |-> 1]

\* The outcome of a call that is done: what reached the response stage, the
\* executions of the handler, whether a deadline expired, the response.
Outcome(c) ==
  [res |-> res[c], calls |-> handlerCalls[c], late |-> timedOut[c],
   sent |-> responses[c]]

\* Everything the model holds of one call.
Of(c) ==
  <<route[c], request[c], outer[c], pc[c], mwi[c], mwLog[c], guardLog[c],
    lookup[c], depth[c], armed[c], inner[c], param[c], arg[c], handlerCalls[c],
    hres[c], res[c], timedOut[c], events[c], caughtBy[c], caughtAt[c],
    responses[c]>>

\* A step changes what the model holds of one call at most; a deadline that
\* expires is the one of the call that changes.
OneCallMoves ==
  \A c \in Calls, d \in Calls :
    (c # d /\ Of(c)' # Of(c)) => Of(d)' = Of(d)

\* A call that is done has the outcome it has alone.
OutcomeAsAlone(c) ==
  pc[c] = "done" =>
    LET alone == Alone(route[c], request[c], param[c], hres[c], timedOut[c])
    IN  /\ Outcome(c).res = alone.res
        /\ Outcome(c).calls = alone.calls
        /\ Len(Outcome(c).sent) = 1
        /\ Outcome(c).late => InSeq("TimeoutInterceptor", Icpts(c))

\* C28: with two calls in progress, in every interleaving of their steps, a
\* call that is done has the outcome (result or error, executions of the
\* handler, one response) that the same route, request, pipe input, handler
\* behaviour and deadline give it alone, and every step, the expiry of a
\* deadline included, changes nothing of the other call.
C28_ConcurrentCallsIndependent ==
  /\ [](\A c \in Calls : OutcomeAsAlone(c))
  /\ [][OneCallMoves]_vars

C28_Witness ==
  /\ pc[1] = "done"
  /\ pc[2] = "done"
  /\ Icpts(1) = <<"TimeoutInterceptor">>
  /\ timedOut[2]
  /\ ~timedOut[1]
  /\ res[1] = Ok(<<"hello">>)
  /\ res[2] = Fail(RequestTimeoutException)

\* The interceptors of the call whose intercept() has run and called
\* next.handle().
Handled(c) ==
  {i \in 1..Len(Icpts(c)) : Occurs(c, Before(i)) /\ intercept(Icpts(c)[i]).handle}

\* C31: for every list of the four interceptors of the repository, in a call
\* intercept() of each interceptor runs at most once, next.handle() has been
\* called once by each interceptor that ran and calls it and by no other,
\* each interceptor's operators see at most one result, and the handler has
\* run as often as the events show: at most once.
C31_HandleInvokedAtMostOnce ==
  \A c \in Calls :
    Provided(Icpts(c)) =>
      /\ \A i \in 1..Len(Icpts(c)) :
           /\ Cardinality(Occurrences(c, Before(i))) <= 1
           /\ Cardinality(Occurrences(c, After(i))) <= 1
      /\ depth[c] = Cardinality(Handled(c))
      /\ Handled(c) = 1..depth[c]
      /\ handlerCalls[c] = Cardinality(Occurrences(c, HandlerRan))
      /\ handlerCalls[c] <= 1
      /\ handlerCalls[c] = 1 => depth[c] = Len(Icpts(c))

C31_Witness ==
  /\ Icpts(1) = <<"TimeoutInterceptor", "LoggingInterceptor">>
  /\ depth[1] = 2
  /\ handlerCalls[1] = 1
  /\ events[1] = <<Before(1), Before(2), HandlerRan, After(2), After(1)>>
  /\ pc[1] = "done"

C31_WitnessCache ==
  /\ Icpts(1) = <<"TransformInterceptor", "CacheInterceptor">>
  /\ depth[1] = 1
  /\ handlerCalls[1] = 0
  /\ pc[1] = "done"

\* The route of the call has a CacheInterceptor, and its first one has run.
CacheEntered(c) ==
  /\ InSeq("CacheInterceptor", Icpts(c))
  /\ Occurs(c, Before(FirstCache(Icpts(c))))

\* C32: on a route with a CacheInterceptor the handler and the pipe never
\* run and no CacheInterceptor ever calls next.handle(): the chain never
\* goes further in than the first one.  Once that one has run the call has a
\* result at once, whatever the user and the url of the request are: the
\* empty list it returned, as the interceptors around it hand it on, which
\* is the bare [] when no TransformInterceptor stands outside it.
C32_CacheAlwaysHits ==
  \A c \in Calls :
    InSeq("CacheInterceptor", Icpts(c)) =>
      LET j == FirstCache(Icpts(c)) IN
      /\ handlerCalls[c] = 0
      /\ hres[c] = Pending
      /\ param[c] = NoParam
      /\ depth[c] < j
      /\ \A i \in Handled(c) : Icpts(c)[i] # "CacheInterceptor"
      /\ CacheEntered(c) =>
           /\ Answered(c)
           /\ ~timedOut[c]
           /\ res[c] =
                Unwind(Icpts(c), j - 1, [res |-> Ok(<<"[]">>), events |-> <<>>]).res
           /\ TransformsBefore(Icpts(c), j) = 0 => res[c] = Ok(<<"[]">>)
           /\ (pc[c] = "done" /\ TransformsBefore(Icpts(c), j) = 0) =>
                TheResponse(c) = SendResult(<<"[]">>)

C32_Witness ==
  /\ Icpts(1) = <<"TimeoutInterceptor", "CacheInterceptor">>
  /\ route[1].pipe = "ParseIntPipe"
  /\ request[1].url = "/1a"
  /\ pc[1] = "done"
  /\ TheResponse(1) = SendResult(<<"[]">>)

C32_WitnessUser ==
  /\ Icpts(1) = <<"CacheInterceptor">>
  /\ Guards(1) = <<"RolesGuard">>
  /\ request[1].user = "guest"
  /\ request[1].url = "/cats"
  /\ pc[1] = "done"
  /\ TheResponse(1) = SendResult(<<"[]">>)

\* The payload that reached the response stage of the call, if one did.
PayloadOf(c) == IF res[c].kind = "ok" THEN res[c].val ELSE NoPayload

\* C33: what a call through a CacheInterceptor and a TransformInterceptor is
\* answered with depends on their order.  With [Transform, Cache] the map of
\* the TransformInterceptor runs on the cached [] and the payload is
\* {data: []}; with [Cache, Transform] neither intercept() nor the map of the
\* TransformInterceptor runs and the payload is the bare [].  In any list, a
\* TransformInterceptor behind the first CacheInterceptor never runs, and one
\* in front of it whose map has run has wrapped the cached payload.
C33_CacheTransformOrderMatters ==
  \A c \in Calls :
    /\ (Icpts(c) = <<"TransformInterceptor", "CacheInterceptor">> /\ CacheEntered(c)) =>
         /\ events[c] = <<Before(1), Before(2), After(1)>>
         /\ PayloadOf(c) = <<"data", "[]">>
         /\ pc[c] = "done" => TheResponse(c) = SendResult(<<"data", "[]">>)
    /\ (Icpts(c) = <<"CacheInterceptor", "TransformInterceptor">> /\ CacheEntered(c)) =>
         /\ events[c] = <<Before(1)>>
         /\ PayloadOf(c) = <<"[]">>
         /\ pc[c] = "done" => TheResponse(c) = SendResult(<<"[]">>)
    /\ InSeq("CacheInterceptor", Icpts(c)) =>
         \A i \in 1..Len(Icpts(c)) :
           Icpts(c)[i] = "TransformInterceptor" =>
             /\ i > FirstCache(Icpts(c)) =>
                  ~Occurs(c, Before(i)) /\ ~Occurs(c, After(i))
             /\ Occurs(c, After(i)) =>
                  /\ i < FirstCache(Icpts(c))
                  /\ Len(PayloadOf(c)) >= 2
                  /\ PayloadOf(c)[1] = "data"

C33_Witness ==
  /\ Icpts(1) = <<"TransformInterceptor", "CacheInterceptor">>
  /\ pc[1] = "done"
  /\ TheResponse(1) = SendResult(<<"data", "[]">>)

C33_WitnessCacheFirst ==
  /\ Icpts(1) = <<"CacheInterceptor", "TransformInterceptor">>
  /\ pc[1] = "done"
  /\ events[1] = <<Before(1)>>
  /\ TheResponse(1) = SendResult(<<"[]">>)

\* A call whose RolesGuard ran for a method that declares roles while no user
\* is attached to the request.
RolesWithoutUser(c) ==
  /\ RolesGuardRan(c)
  /\ route[c].roles # "none"
  /\ request[c].user = "none"

\* C34: when RolesGuard runs for a method that declares roles and the request
\* has no user attached, the guard returns neither true nor false: it throws
\* an error that is no HttpException.  No later guard, interceptor, pipe or
\* handler runs, the call fails with that error, no filter bound on the route
\* matches it, and the built-in filter answers 500 with the generic message,
\* not 403 Forbidden.
C34_RolesWithoutUserIsInternalServerError ==
  \A c \in Calls :
    RolesWithoutUser(c) =>
      /\ lookup[c].user
      /\ RolesGuardOutcomes(c) = {"throw"}
      /\ guardLog[c][Len(guardLog[c])] = <<"RolesGuard", "throw">>
      /\ ~GuardError(c).http
      /\ GuardError(c).name \notin {"ForbiddenException", "HttpException"}
      /\ handlerCalls[c] = 0
      /\ hres[c] = Pending
      /\ events[c] = <<>>
      /\ depth[c] = 0
      /\ Answered(c) => res[c] = Fail(GuardError(c))
      /\ pc[c] = "done" =>
           /\ caughtBy[c] = "BuiltInFilter"
           /\ caughtAt[c] = BuiltIn
           /\ TheResponse(c).status = 500
           /\ TheResponse(c).status # ForbiddenException.status
           /\ TheResponse(c).body.message = GenericMessage
           /\ TheResponse(c).body.message # ForbiddenException.msg

C34_Witness ==
  /\ Guards(1) = <<"AuthGuard", "RolesGuard">>
  /\ route[1].roles = "admin"
  /\ request[1].user = "none"
  /\ guardLog[1] = <<<<"AuthGuard", "true">>, <<"RolesGuard", "throw">>>>
  /\ handlerCalls[1] = 0
  /\ pc[1] = "done"
  /\ TheResponse(1).status = 500

C34_WitnessFilter ==
  /\ Guards(1) = <<"RolesGuard">>
  /\ route[1].roles = "admin"
  /\ request[1].user = "none"
  /\ route[1].filter
  /\ pc[1] = "done"
  /\ caughtBy[1] = "BuiltInFilter"
  /\ TheResponse(1).status = 500

====
